---- MODULE Spec2Model ----
(***************************************************************************)
(* Verification model of the Silksong prototypes: the screen-transition    *)
(* state machine (transition.py), the player character (hornet.py), the    *)
(* stealth mission loop (Stealth Game.py), the action game's loop          *)
(* (main.py, mossgrub.py, save_file.py), the animation player              *)
(* (animation.py), the particle system (particles.py) and the guard's      *)
(* field of view (guard.py).  The enemy's patrol (mossgrub.py) is modelled   *)
(* on its own.                                                             *)
(*                                                                         *)
(* Time is counted in ticks of 1/TicksPerSecond seconds, so that one frame *)
(* at the games' 60 fps is a whole number of ticks.  Floating-point        *)
(* quantities are kept as exact integers in a fixed unit:                  *)
(*   progress of a transition : 1.0 = ProgressOne units                    *)
(*   detection level          : 1 point = DetectionUnit units              *)
(* Rounding of the Python floats is not modelled.                          *)
(***************************************************************************)
EXTENDS Integers, Sequences, FiniteSets, TLC

VARIABLES
    tm,        \* the TransitionManager object (fields of transition.py:36-63)
    cb_log,    \* history: every callback invocation made by the manager
    tm_gen,    \* history: number of transitions started so far
    tm_op,     \* history: the last manager operation, its inputs and result
    player,    \* the Hornet object (fields of hornet.py:59-79)
    hhist,     \* history: the last player operation and the running heal channel
    sg,        \* the StealthGame object (fields of Stealth Game.py:35-204)
    shist,     \* history: the last operation of the stealth game's loop
    game,      \* the Silksong object (fields of main.py:39-145)
    ghist,     \* history: the last operation of the action game's loop
    anim,      \* an Animation object (fields of animation.py:34-43)
    ahist,     \* history: the last operation on the Animation object
    ps,        \* a ParticleSystem object (fields of particles.py:15-29)
    pshist,    \* history: the last operation on the particle system
    sentry,    \* a Guard object's fields of view and position (guard.py:19-27)
    sight,     \* history: the last is_in_sight call, its point and its answer
    grub       \* a MossGrub object's rect.x and facing_right (mossgrub.py:24-41)

tmVars == <<tm, cb_log, tm_gen, tm_op>>
hornetVars == <<player, hhist>>
stealthVars == <<sg, shist>>
gameVars == <<game, ghist>>
animVars == <<anim, ahist>>
partVars == <<ps, pshist>>
sightVars == <<sentry, sight>>
patrolVars == <<grub>>
afterPartVars == <<sightVars, patrolVars>>
afterAnimVars == <<partVars, afterPartVars>>
restVars == <<animVars, afterAnimVars>>
vars == <<tm, cb_log, tm_gen, tm_op, player, hhist, sg, shist, game, ghist, anim, ahist,
          ps, pshist, sentry, sight, grub>>

fps == 60
TicksPerSecond == 5 * fps

(***************************************************************************)
(* TransitionManager (transition.py)                                       *)
(***************************************************************************)

\* progress += (speed / 255.0) * dt, with dt in ticks: one progress unit is
\* 1/(255 * TicksPerSecond), so the increment is the integer speed * dt.
ProgressOne == 255 * TicksPerSecond
ProgressHalf == ProgressOne \div 2

\* A callable handed to start_transition.  fn = "None" is Python's None;
\* "record" is a callback that does not touch the manager; "restart" is a
\* callback that calls start_transition on the manager again;
\* "_on_state_change" is StealthGame._on_state_change.  id names the
\* transition the callable was registered for.
NoCallback == [fn |-> "None", id |-> 0]

\* speed argument: None (use default_speed) or a number
NoSpeed == [given |-> FALSE, v |-> 0]
SomeSpeed(v) == [given |-> TRUE, v |-> v]

TransitionManager_init(default_speed) ==
    [ default_speed |-> default_speed,
      active |-> FALSE,
      phase |-> "none",
      progress |-> 0,
      speed |-> default_speed,
      target_state |-> "None",
      complete_callback |-> NoCallback,
      state_change_callback |-> NoCallback,
      transition_type |-> "FADE_COLOR",
      video_cap |-> FALSE ]

\* kwargs of start_transition, reduced to what _configure_content tests:
\* path is "none" (argument absent), "missing" (no such file), "bad" (file
\* exists but cannot be opened / decoded) or "ok".
_configure_content_ok(transition_type, path) ==
    CASE transition_type = "FADE_VIDEO" -> path = "ok"
      [] transition_type = "FADE_IMAGE" -> path = "ok"
      [] OTHER -> TRUE

_configure_content(t, path) ==
    LET ok == _configure_content_ok(t.transition_type, path) IN
    [ t |-> CASE t.transition_type = "FADE_VIDEO" ->
                    \* video_cap is assigned before isOpened() is tested
                    [t EXCEPT !.video_cap = (path \in {"ok", "bad"})]
              [] OTHER -> t,
      ret |-> ok ]

start_transition_guard_mut(t) == FALSE
start_transition_guard(t) == t.active

start_transition(t, a) ==
    IF start_transition_guard(t)
    THEN [t |-> t, ret |-> FALSE, started |-> 0]
    ELSE LET t1 == [t EXCEPT
                      !.active = TRUE,
                      !.target_state = a.target_state,
                      !.transition_type = a.transition_type,
                      !.speed = IF a.speed.given THEN a.speed.v ELSE t.default_speed,
                      !.complete_callback = a.completion_callback,
                      !.state_change_callback = a.state_change_callback,
                      !.progress = 0,
                      !.phase = "in"]
             c == _configure_content(t1, a.path)
         IN [t |-> c.t, ret |-> c.ret, started |-> 1]

\* What a "restart" callback does: it asks the manager for a new transition
\* whose own callbacks are plain ones registered under the next id.
RestartArgs(cb) ==
    [ target_state |-> "B",
      transition_type |-> "FADE_COLOR",
      speed |-> NoSpeed,
      completion_callback |-> [fn |-> "record", id |-> cb.id + 1],
      state_change_callback |-> [fn |-> "record", id |-> cb.id + 1],
      path |-> "none" ]

BoolStr(b) == IF b THEN "True" ELSE "False"

\* Invocation of a stored callable from inside the manager.  The entry
\* records what the callee can observe of the manager at that moment.
InvokeCallback_mut(t, cb, kind, arg) ==
    IF cb.fn = "None"
    THEN [t |-> t, fired |-> <<>>, started |-> 0]
    ELSE LET entry == [ id |-> cb.id, kind |-> kind, arg |-> arg,
                        active |-> t.active, phase |-> t.phase,
                        ret |-> "none" ]
         IN IF cb.fn = "restart"
            THEN LET s == start_transition([t EXCEPT !.active = FALSE],
                                           RestartArgs(cb))
                 IN [ t |-> s.t,
                      fired |-> << [entry EXCEPT !.ret = BoolStr(s.ret)] >>,
                      started |-> s.started ]
            ELSE [t |-> t, fired |-> <<entry>>, started |-> 0]
InvokeCallback(t, cb, kind, arg) ==
    IF cb.fn = "None"
    THEN [t |-> t, fired |-> <<>>, started |-> 0]
    ELSE LET entry == [ id |-> cb.id, kind |-> kind, arg |-> arg,
                        active |-> t.active, phase |-> t.phase,
                        ret |-> "none" ]
         IN IF cb.fn = "restart"
            THEN LET s == start_transition(t, RestartArgs(cb))
                 IN [ t |-> s.t,
                      fired |-> << [entry EXCEPT !.ret = BoolStr(s.ret)] >>,
                      started |-> s.started ]
            ELSE [t |-> t, fired |-> <<entry>>, started |-> 0]

_complete_transition_mut(t) ==
    LET c == InvokeCallback(t, t.complete_callback, "complete", "None")
    IN [c EXCEPT !.t = [@ EXCEPT !.active = FALSE, !.phase = "complete",
                                  !.progress = ProgressOne, !.video_cap = FALSE]]
_complete_transition(t) ==
    LET t1 == [t EXCEPT !.active = FALSE,
                        !.phase = "complete",
                        !.progress = ProgressOne,
                        !.video_cap = FALSE]
    IN InvokeCallback(t1, t1.complete_callback, "complete", "None")

StateChangeDue_mut(t) == t.progress >= ProgressHalf
StateChangeDue(t) == t.phase = "in" /\ t.progress >= ProgressHalf

CompleteDue_mut(t) == t.phase = "out" /\ t.progress >= ProgressHalf
CompleteDue(t) == t.phase = "out" /\ t.progress >= ProgressOne

TransitionManager_update(t, dt) ==
    LET result == [ active |-> t.active, state_changed |-> FALSE,
                    completed |-> FALSE, phase |-> t.phase,
                    progress |-> t.progress ]
    IN
    IF ~t.active
    THEN [t |-> t, result |-> result, fired |-> <<>>, started |-> 0]
    ELSE
      LET t1 == [t EXCEPT !.progress = @ + t.speed * dt] IN
      IF StateChangeDue(t1)
      THEN LET c == InvokeCallback([t1 EXCEPT !.phase = "out"],
                                   t1.state_change_callback,
                                   "state_change", t1.target_state)
           IN [ t |-> c.t,
                result |-> [result EXCEPT !.state_changed = TRUE,
                                          !.progress = c.t.progress],
                fired |-> c.fired, started |-> c.started ]
      ELSE IF CompleteDue(t1)
      THEN LET c == _complete_transition(t1)
           IN [ t |-> c.t,
                result |-> [result EXCEPT !.completed = TRUE,
                                          !.progress = c.t.progress],
                fired |-> c.fired, started |-> c.started ]
      ELSE [ t |-> t1,
             result |-> [result EXCEPT !.progress = t1.progress],
             fired |-> <<>>, started |-> 0 ]

is_active(t) == t.active

clear(t) == [t EXCEPT !.video_cap = FALSE, !.active = FALSE]

(***************************************************************************)
(* Hornet, the player character (hornet.py).  Only the health, silk, heal  *)
(* channel and attack fields are kept; movement, camera and sound are not  *)
(* modelled.                                                               *)
(***************************************************************************)

max_health == 5
heal_amount == 3
max_silk == 99
\* seconds in the source, ticks here
heal_channel_duration == 2 * TicksPerSecond
attack_cooldown == (18 * TicksPerSecond) \div 100

Min(a, b) == IF a < b THEN a ELSE b
Max(a, b) == IF a > b THEN a ELSE b

\* Hornet.__init__, followed by the restore of health and silk from the
\* save slot that Silksong.handle_events performs on the fresh object.
Hornet_init(saved_health, saved_silk) ==
    [ health |-> Max(0, Min(max_health, saved_health)),
      silk |-> Max(0, Min(max_silk, saved_silk)),
      is_healing |-> FALSE,
      heal_channel_timer |-> 0,
      _heal_key_down |-> FALSE,
      _attack_timer |-> 0,
      _attack_triggered |-> FALSE ]

gain_silk_mut(p, amount) ==
    IF amount <= 0 THEN p
    ELSE [p EXCEPT !.silk = p.silk + amount]
gain_silk(p, amount) ==
    IF amount <= 0 THEN p
    ELSE [p EXCEPT !.silk = Min(max_silk, p.silk + amount)]

start_heal_channel(p) ==
    IF p.is_healing THEN p
    ELSE IF p.silk <= 0 THEN p
    ELSE IF p.health >= max_health THEN p
    ELSE [p EXCEPT !.silk = 0,
                   !.is_healing = TRUE,
                   !.heal_channel_timer = heal_channel_duration]

cancel_heal_channel_mut(p) == [p EXCEPT !.is_healing = FALSE]
cancel_heal_channel(p) ==
    [p EXCEPT !.is_healing = FALSE, !.heal_channel_timer = 0]

heal(p) ==
    IF p.health < max_health
    THEN [p EXCEPT !.health = Min(p.health + heal_amount, max_health)]
    ELSE p

take_damage_mut(p, damage) ==
    IF damage <= 0 THEN p
    ELSE [p EXCEPT !.health = Max(0, p.health - damage)]
take_damage(p, damage) ==
    IF damage <= 0 THEN p
    ELSE LET p1 == IF p.is_healing THEN cancel_heal_channel(p) ELSE p
         IN [p1 EXCEPT !.health = Max(0, p1.health - damage)]

\* the heal key is edge-triggered
HealKeyEdge_mut(p, keys) == keys.shift
HealKeyEdge(p, keys) == keys.shift /\ ~p._heal_key_down

\* keys: the held state of the heal key (either shift) and the attack key (j)
handle_input(p, keys) ==
    LET p0 == [p EXCEPT !._attack_triggered = FALSE]
        p1 == IF HealKeyEdge(p0, keys) THEN start_heal_channel(p0) ELSE p0
        p2 == [p1 EXCEPT !._heal_key_down = keys.shift]
    IN IF p2.is_healing THEN p2
       ELSE IF keys.j /\ p2._attack_timer <= 0
            THEN [p2 EXCEPT !._attack_timer = attack_cooldown,
                            !._attack_triggered = TRUE]
            ELSE p2

consume_attack_trigger(p) ==
    [p |-> [p EXCEPT !._attack_triggered = FALSE], ret |-> p._attack_triggered]

HealChannelDone_mut(p) == p.heal_channel_timer <= heal_channel_duration \div 2
HealChannelDone(p) == p.heal_channel_timer <= 0

Hornet_update(p, dt) ==
    LET p1 == IF p._attack_timer > 0
              THEN [p EXCEPT !._attack_timer = Max(0, p._attack_timer - dt)]
              ELSE p
    IN IF p1.is_healing
       THEN LET p2 == [p1 EXCEPT !.heal_channel_timer = @ - dt]
            IN IF HealChannelDone(p2)
               THEN heal([p2 EXCEPT !.heal_channel_timer = 0,
                                    !.is_healing = FALSE])
               ELSE p2
       ELSE p1

\* history of the player: the last operation with its inputs, the update
\* time accumulated since the running heal channel started (elapsed) and the
\* number of attacks that have hit
HornetHistInit ==
    [ op |-> "init", keys |-> [shift |-> FALSE, j |-> FALSE], dt |-> 0,
      damage |-> 0, elapsed |-> 0, hits |-> 0 ]

(***************************************************************************)
(* StealthGame (Stealth Game.py) with its Buttons (button.py) and Guards   *)
(* (guard.py).  Kept: the screen state, the pause and confirmation flags,  *)
(* the mission counters and timers, the four action buttons, the guards'   *)
(* patrol clocks and alerts, the security event and the credits.  Drawing, *)
(* sound, particles, toasts, statistics and the animated copies of the     *)
(* counters are not modelled.  The settings menu, the upgrade menu and the *)
(* difficulty button are never opened by the inputs used here: a mission   *)
(* is played with the perks it started with and the 'normal' difficulty.   *)
(***************************************************************************)

WIDTH == 1000
HEIGHT == 700

\* detection_level is a float in points; one point is DetectionUnit units,
\* which makes base_detection, dps * dt and the 4.5 points of a successful
\* hack whole numbers for dt in ticks.
DetectionUnit == 10 * TicksPerSecond

mission_time == 60 * TicksPerSecond
max_detection == 100 * DetectionUnit
objectives_needed == 5
\* difficulty_params['normal']['guards']
num_guards == 3

ActionKeys == {"camera", "lights", "distract", "hack"}

Rect(x, y, w, h) == [x |-> x, y |-> y, w |-> w, h |-> h]

\* pygame.Rect.collidepoint: the right and bottom edges are outside
collidepoint(r, pos) ==
    /\ r.x <= pos[1] /\ pos[1] < r.x + r.w
    /\ r.y <= pos[2] /\ pos[2] < r.y + r.h

RectCenter(r) == << r.x + (r.w \div 2), r.y + (r.h \div 2) >>

\* rectangles of create_buttons, of the pause and reset dialog buttons of
\* __init__ and of the quit dialog buttons made by draw_quit_confirmation
ButtonRect ==
    [ camera |-> Rect(100, 500, 140, 50),
      lights |-> Rect(100 + 160, 500, 140, 50),
      distract |-> Rect(100 + 2 * 160, 500, 140, 50),
      hack |-> Rect(100 + 3 * 160, 500, 140, 50),
      menu |-> Rect((WIDTH \div 2) - 100, (HEIGHT \div 2) + 100, 200, 50),
      exit |-> Rect((WIDTH \div 2) - 100, (HEIGHT \div 2) + 170, 200, 50),
      settings |-> Rect(WIDTH - 240, 20, 120, 40),
      upgrades |-> Rect(WIDTH - 380, 20, 120, 40),
      reset |-> Rect(WIDTH - 100, 20, 80, 40),
      pause_game |-> Rect(WIDTH - 100, 20, 80, 40),
      difficulty |-> Rect((WIDTH \div 2) - 100, (HEIGHT \div 2) + 240, 200, 50),
      reset_yes_btn |-> Rect((WIDTH \div 2) - 120, (HEIGHT \div 2) + 80, 100, 40),
      reset_no_btn |-> Rect((WIDTH \div 2) + 20, (HEIGHT \div 2) + 80, 100, 40),
      pause_resume_btn |-> Rect((WIDTH \div 2) - 100, (HEIGHT \div 2) - 20, 200, 50),
      pause_menu_btn |-> Rect((WIDTH \div 2) - 100, (HEIGHT \div 2) + 50, 200, 50),
      quit_yes_btn |-> Rect(((WIDTH - 400) \div 2) + 50, ((HEIGHT - 200) \div 2) + 150, 100, 30),
      quit_no_btn |-> Rect(((WIDTH - 400) \div 2) + 250, ((HEIGHT - 200) \div 2) + 150, 100, 30) ]

\* A Button: only the action buttons are ever updated or put on cooldown, so
\* every other button keeps active = True for ever.
Button_init == [cooldown |-> 0, active |-> TRUE]

Button_update(b, dt) ==
    IF b.cooldown > 0
    THEN IF b.cooldown - dt <= 0
         THEN [cooldown |-> 0, active |-> TRUE]
         ELSE [cooldown |-> b.cooldown - dt, active |-> FALSE]
    ELSE [b EXCEPT !.active = TRUE]

set_cooldown(b, cooldown_time) == [b EXCEPT !.cooldown = cooldown_time]

is_clicked(b, name, pos) == collidepoint(ButtonRect[name], pos) /\ b.active

\* a button that is never updated: is_clicked is the hit test alone
static_clicked(name, pos) == is_clicked(Button_init, name, pos)

create_buttons == [k \in ActionKeys |-> Button_init]

\* A Guard.  current_time is kept modulo patrol_time, which is all that
\* position = (current_time % patrol_time) / patrol_time depends on.
Guard_init(patrol_time) ==
    [patrol_time |-> patrol_time, current_time |-> 0, alert |-> FALSE]

Guard_update(gd, dt) ==
    [gd EXCEPT !.current_time = (@ + dt) % gd.patrol_time]

\* danger_zone_start < guard.position < danger_zone_end, with 0.4 and 0.6
InDangerZone(gd) ==
    /\ 4 * gd.patrol_time < 10 * gd.current_time
    /\ 10 * gd.current_time < 6 * gd.patrol_time

\* current_event: None, or the chosen event with its time_left.  dps is
\* kept in tenths of a point per second.
NoEvent == [kind |-> "None", time_left |-> 0, dps10 |-> 0]

NoPerks ==
    [cooldown_reduction |-> 0, camera_disable_bonus |-> 0,
     detection_resistance |-> 0]

\* purchase_upgrade('detection_resistance'), lines 252-254, the perk in
\* hundredths: each purchase adds 0.15
purchase_detection_resistance(g) ==
    [g EXCEPT !.perks.detection_resistance = @ + 15]

\* the object after __init__ with no save file to load; guards is the list
\* it builds, each guard with a random patrol_time and, from
\* load_guard_animations, a random current_time in [0, patrol_time)
StealthGame_init(guards) ==
    [ running |-> TRUE,
      state |-> "menu",
      paused |-> FALSE,
      show_pause_menu |-> FALSE,
      show_quit_confirmation |-> FALSE,
      show_reset_confirmation |-> FALSE,
      time_remaining |-> mission_time,
      detection_level |-> 0,
      objective_progress |-> 0,
      secondary_objectives |-> <<>>,
      perks |-> NoPerks,
      currency |-> 0,
      pending_credits |-> 0,
      guards |-> guards,
      buttons |-> create_buttons,
      camera_disabled |-> FALSE,
      camera_disable_time |-> 0,
      lights_disabled |-> FALSE,
      lights_disable_time |-> 0,
      event_timer |-> 0,
      current_event |-> NoEvent ]

\* reset_game; new_guards are the guards it builds, random as in __init__
reset_game(g, new_guards) ==
    [g EXCEPT !.time_remaining = mission_time,
              !.detection_level = 0,
              !.objective_progress = 0,
              !.pending_credits = 0,
              !.camera_disabled = FALSE,
              !.camera_disable_time = 0,
              !.lights_disabled = FALSE,
              !.lights_disable_time = 0,
              !.event_timer = 0,
              !.current_event = NoEvent,
              !.guards = new_guards,
              !.buttons = create_buttons,
              !.secondary_objectives = <<>>]

reset_all_progress(g) ==
    [g EXCEPT !.currency = 0,
              !.pending_credits = 0,
              !.perks = NoPerks,
              !.show_reset_confirmation = FALSE]

_on_state_change(g, target_state) == [g EXCEPT !.state = target_state]

\* max(1.0, base_cooldown - cooldown_reduction) and its variants, in ticks
ActionCooldown(g, floor, base) ==
    Max(floor * TicksPerSecond, base * TicksPerSecond - g.perks.cooldown_reduction)

\* index of the first active secondary objective within 20 pixels of pos,
\* or 0 when there is none
ClickedObjective(g, pos) ==
    LET near == { i \in 1..Len(g.secondary_objectives) :
                    LET so == g.secondary_objectives[i]
                    IN (pos[1] - so.x) * (pos[1] - so.x)
                         + (pos[2] - so.y) * (pos[2] - so.y) <= 20 * 20 }
    IN IF near = {} THEN 0 ELSE CHOOSE i \in near : \A j \in near : i <= j

RemoveAt(s, i) == SubSeq(s, 1, i - 1) \o SubSeq(s, i + 1, Len(s))

\* the two branches of the hack; detection_increase * 0.3 is 4.5 points
HackSuccessDetection_mut(g) ==
    Max(0, g.detection_level + 15 * DetectionUnit)
HackSuccessDetection(g) ==
    Max(0, g.detection_level + (15 * 3 * DetectionUnit) \div 10)

HackFailDetection_mut(g) == g.detection_level + 15 * DetectionUnit
HackFailDetection(g) ==
    Min(max_detection, g.detection_level + 15 * DetectionUnit)

\* base_success = max(0.4, 0.85 - detection_level / 120.0), kept in units of
\* 1 / ChanceUnit so that detection_level / 120 is a whole number
ChanceUnit == 120 * DetectionUnit

HackSuccessChance_mut(g) ==
    Max((4 * ChanceUnit) \div 10,
        (85 * ChanceUnit) \div 100 - (120 * g.detection_level) \div 100)
HackSuccessChance(g) ==
    Max((4 * ChanceUnit) \div 10, (85 * ChanceUnit) \div 100 - g.detection_level)

\* random.random() <= success_chance, roll being random.random() in units
\* of 1 / ChanceUnit
HackSucceeds(g, roll) == roll <= HackSuccessChance(g)

\* _handle_game_clicks(pos); hack_ok is the outcome of
\* random.random() <= success_chance, which can go either way since
\* 0.4 <= success_chance <= 0.85
_handle_game_clicks(g, pos, hack_ok) ==
    LET i == ClickedObjective(g, pos) IN
    IF i > 0
    THEN [g EXCEPT !.secondary_objectives = RemoveAt(@, i),
                   !.pending_credits = @ + g.secondary_objectives[i].reward]
    ELSE IF is_clicked(g.buttons.camera, "camera", pos)
    THEN [g EXCEPT !.camera_disabled = TRUE,
                   !.camera_disable_time =
                        8 * TicksPerSecond + g.perks.camera_disable_bonus,
                   !.buttons.camera = set_cooldown(@, ActionCooldown(g, 1, 7)),
                   !.detection_level = Max(0, @ - 15 * DetectionUnit)]
    ELSE IF is_clicked(g.buttons.lights, "lights", pos)
    THEN [g EXCEPT !.lights_disabled = TRUE,
                   !.lights_disable_time = 6 * TicksPerSecond,
                   !.buttons.lights = set_cooldown(@, ActionCooldown(g, 1, 5)),
                   !.detection_level = Max(0, @ - 10 * DetectionUnit)]
    ELSE IF is_clicked(g.buttons.distract, "distract", pos)
    THEN [g EXCEPT !.guards = [k \in DOMAIN @ |-> [@[k] EXCEPT !.alert = FALSE]],
                   !.detection_level = Max(0, @ - 20 * DetectionUnit),
                   !.buttons.distract = set_cooldown(@, ActionCooldown(g, 1, 10))]
    ELSE IF is_clicked(g.buttons.hack, "hack", pos)
    THEN IF g.buttons.hack.cooldown > 0
         THEN g
         ELSE IF hack_ok
         THEN [g EXCEPT !.objective_progress = @ + 2,
                        !.detection_level = HackSuccessDetection(g),
                        !.buttons.hack = set_cooldown(@, ActionCooldown(g, 1, 3))]
         ELSE [g EXCEPT !.detection_level = HackFailDetection(g),
                        !.buttons.hack = set_cooldown(@, ActionCooldown(g, 2, 5))]
    ELSE g

\* arguments of the two start_transition calls of handle_events; video is
\* what the file system holds at assets/videos/hacking bg.mp4
OnStateChange == [fn |-> "_on_state_change", id |-> 0]

StartMissionArgs(video) ==
    [ target_state |-> "playing",
      transition_type |-> "FADE_VIDEO",
      speed |-> SomeSpeed(500),
      completion_callback |-> NoCallback,
      state_change_callback |-> OnStateChange,
      path |-> video ]

ReturnToMenuArgs ==
    [ target_state |-> "menu",
      transition_type |-> "SLIDE_DOWN",
      speed |-> SomeSpeed(600),
      completion_callback |-> NoCallback,
      state_change_callback |-> OnStateChange,
      path |-> "none" ]

\* handle_events for one MOUSEBUTTONDOWN event at pos while the settings
\* menu is hidden.  rnd holds what the handler draws or finds: the guards
\* of reset_game, the hack roll and the state of the video file.
handle_click(g, t, pos, rnd) ==
    IF g.state = "menu"
    THEN IF g.show_reset_confirmation
         THEN IF static_clicked("reset_yes_btn", pos)
              THEN [g |-> reset_all_progress(g), t |-> t]
              ELSE IF static_clicked("reset_no_btn", pos)
              THEN [g |-> [g EXCEPT !.show_reset_confirmation = FALSE], t |-> t]
              ELSE [g |-> g, t |-> t]
         ELSE IF static_clicked("menu", pos)
         THEN [ g |-> reset_game(g, rnd.guards),
                t |-> start_transition(t, StartMissionArgs(rnd.video)).t ]
         ELSE IF static_clicked("exit", pos)
         THEN [g |-> [g EXCEPT !.running = FALSE], t |-> t]
         ELSE IF static_clicked("reset", pos)
         THEN [g |-> [g EXCEPT !.show_reset_confirmation = TRUE], t |-> t]
         ELSE [g |-> g, t |-> t]
    ELSE IF g.state = "playing"
    THEN IF g.show_quit_confirmation /\ static_clicked("quit_yes_btn", pos)
         THEN [ g |-> [reset_game([g EXCEPT !.pending_credits = 0,
                                            !.show_quit_confirmation = FALSE,
                                            !.show_pause_menu = FALSE,
                                            !.paused = FALSE], rnd.guards)
                         EXCEPT !.state = "menu"],
                t |-> t ]
         ELSE IF g.show_quit_confirmation /\ static_clicked("quit_no_btn", pos)
         THEN [g |-> [g EXCEPT !.show_quit_confirmation = FALSE], t |-> t]
         ELSE IF g.show_pause_menu /\ static_clicked("pause_resume_btn", pos)
         THEN [g |-> [g EXCEPT !.show_pause_menu = FALSE, !.paused = FALSE],
               t |-> t]
         ELSE IF g.show_pause_menu /\ static_clicked("pause_menu_btn", pos)
         THEN [g |-> [g EXCEPT !.show_quit_confirmation = TRUE], t |-> t]
         ELSE IF static_clicked("pause_game", pos)
         THEN [g |-> [g EXCEPT !.show_pause_menu = TRUE, !.paused = TRUE],
               t |-> t]
         ELSE [g |-> _handle_game_clicks(g, pos, rnd.hack), t |-> t]
    ELSE IF static_clicked("menu", pos)
         THEN [ g |-> reset_game(g, rnd.guards),
                t |-> start_transition(t, ReturnToMenuArgs).t ]
         ELSE IF static_clicked("exit", pos)
         THEN [g |-> [g EXCEPT !.running = FALSE], t |-> t]
         ELSE [g |-> g, t |-> t]

\* _handle_keyboard(key) for the keys "escape", "1", "2", "3", "4"; the
\* upgrade shortcuts are skipped since upgrade_menu_open stays False
_handle_keyboard(g, key, hack_ok) ==
    IF g.state # "playing"
    THEN g
    ELSE IF key = "escape"
    THEN IF g.show_pause_menu
         THEN IF g.show_quit_confirmation
              THEN [g EXCEPT !.show_quit_confirmation = FALSE]
              ELSE [g EXCEPT !.show_pause_menu = FALSE, !.paused = FALSE]
         ELSE [g EXCEPT !.show_pause_menu = TRUE, !.paused = TRUE]
    ELSE IF g.paused
    THEN g
    ELSE LET action_map == [k \in {"1", "2", "3"} |->
                               CASE k = "1" -> "camera"
                                 [] k = "2" -> "lights"
                                 [] k = "3" -> "distract"]
         IN IF key \in DOMAIN action_map
            THEN IF g.buttons[action_map[key]].active
                 THEN _handle_game_clicks(g,
                          RectCenter(ButtonRect[action_map[key]]), hack_ok)
                 ELSE g
            ELSE IF key = "4" /\ g.buttons.hack.active
            THEN _handle_game_clicks(g, RectCenter(ButtonRect.hack), hack_ok)
            ELSE g

\* trigger_random_event: ev is random.choice(events) with its instant drawn
trigger_random_event(g, ev) ==
    [g EXCEPT !.detection_level = @ + ev.instant * DetectionUnit,
              !.current_event = [kind |-> ev.kind, time_left |-> ev.duration,
                                 dps10 |-> ev.dps10]]

\* trigger_random_event, lines 1052-1053: the screen shake
EventShakes_mut(ev) == ev.instant > 10
EventShakes(ev) == ev.instant >= 10

\* base_detection = 2 * dt, times 0.3 with the cameras off, times 0.5 with
\* the lights off
BaseDetection(g, dt) ==
    LET b0 == (2 * dt * DetectionUnit) \div TicksPerSecond
        b1 == IF g.camera_disabled THEN (b0 * 3) \div 10 ELSE b0
    IN IF g.lights_disabled THEN (b1 * 5) \div 10 ELSE b1

\* the win / loss test at the end of a mission frame
MissionOutcome_mut(g) ==
    IF g.detection_level >= max_detection \/ g.time_remaining <= 0
    THEN "failure"
    ELSE IF g.objective_progress >= objectives_needed THEN "success"
    ELSE "playing"
MissionOutcome(g) ==
    IF g.objective_progress >= objectives_needed THEN "success"
    ELSE IF g.detection_level >= max_detection \/ g.time_remaining <= 0
    THEN "failure"
    ELSE "playing"

\* update, lines 874-891: the mission clock, then the secondary objective
\* spawned when random.random() < 0.02 (spawn.reward = 0 for none), then
\* every objective aged by dt and dropped once its time is up
AgeObjectives(sos, dt) ==
    SelectSeq([i \in 1..Len(sos) |-> [sos[i] EXCEPT !.time_left = @ - dt]],
              LAMBDA so : so.time_left > 0)

UpdateTimers(g, dt, spawn) ==
    [g EXCEPT !.time_remaining = @ - dt,
              !.secondary_objectives =
                  AgeObjectives(IF spawn.reward > 0 THEN Append(@, spawn) ELSE @,
                                dt)]

\* update, lines 911-924: the action buttons, then the camera and lights
\* timers
UpdateButtons(g, dt) ==
    [g EXCEPT !.buttons = [k \in ActionKeys |-> Button_update(@[k], dt)]]

UpdateCamera(g, dt) ==
    IF g.camera_disable_time > 0
    THEN [g EXCEPT !.camera_disable_time = @ - dt,
                   !.camera_disabled =
                       IF g.camera_disable_time - dt <= 0 THEN FALSE ELSE @]
    ELSE g

UpdateLights(g, dt) ==
    IF g.lights_disable_time > 0
    THEN [g EXCEPT !.lights_disable_time = @ - dt]
    ELSE [g EXCEPT !.lights_disabled = FALSE]

\* update, lines 926-953: the guards move, the base detection is added and
\* each guard in the danger zone whose roll succeeds (spotted) is alerted
\* and adds 5 points
MoveGuards(g, dt) ==
    [g EXCEPT !.guards = [i \in 1..num_guards |-> Guard_update(@[i], dt)],
              !.detection_level = @ + BaseDetection(g, dt)]

GuardsSpot_mut(g, spotted) ==
    [g EXCEPT
       !.guards = [i \in 1..num_guards |->
                      IF \E j \in spotted : InDangerZone(g.guards[j])
                      THEN [@[i] EXCEPT !.alert = TRUE]
                      ELSE @[i]],
       !.detection_level =
           @ + 5 * DetectionUnit
                 * Cardinality({ i \in 1..num_guards :
                                   InDangerZone(g.guards[i]) /\ i \in spotted })]
GuardsSpot(g, spotted) ==
    [g EXCEPT
       !.guards = [i \in 1..num_guards |->
                      IF InDangerZone(@[i]) /\ i \in spotted
                      THEN [@[i] EXCEPT !.alert = TRUE]
                      ELSE @[i]],
       !.detection_level =
           @ + 5 * DetectionUnit
                 * Cardinality({ i \in 1..num_guards :
                                   InDangerZone(g.guards[i]) /\ i \in spotted })]

\* update, lines 955-967: the event timer and the running event
UpdateEventTimer(g, dt, ev) ==
    IF g.event_timer + dt >= 5 * TicksPerSecond
    THEN trigger_random_event([g EXCEPT !.event_timer = 0], ev)
    ELSE [g EXCEPT !.event_timer = @ + dt]

UpdateCurrentEvent(g, dt) ==
    IF g.current_event.kind # "None"
    THEN [g EXCEPT
            !.detection_level = @ + g.current_event.dps10 * dt,
            !.current_event =
                IF g.current_event.time_left - dt <= 0
                THEN NoEvent
                ELSE [@ EXCEPT !.time_left = @ - dt]]
    ELSE g

\* update, line 978
ClampDetection(g) ==
    [g EXCEPT !.detection_level = Max(0, Min(@, max_detection))]

\* update, lines 979-1012: what the win / loss test does to the game
EndMission_mut(g, outcome) ==
    CASE outcome = "success" ->
           [g EXCEPT !.currency = @ + g.pending_credits,
                     !.pending_credits = 0,
                     !.state = "success"]
      [] outcome = "failure" -> [g EXCEPT !.state = "failure"]
      [] OTHER -> g
EndMission(g, outcome) ==
    CASE outcome = "success" ->
           [g EXCEPT !.currency = @ + g.pending_credits,
                     !.pending_credits = 0,
                     !.state = "success"]
      [] outcome = "failure" ->
           [g EXCEPT !.state = "failure", !.pending_credits = 0]
      [] OTHER -> g

CheckWinLoss(g) == EndMission(g, MissionOutcome(g))

\* the body of update below its early returns.  rnd holds the random draws
\* of the frame: spawn (the secondary objective created when
\* random.random() < 0.02, reward 0 for none), spotted (the guards whose
\* detection roll succeeds) and event (the choice of trigger_random_event).
MissionFrame(g, dt, rnd) ==
    CheckWinLoss(
      ClampDetection(
        UpdateCurrentEvent(
          UpdateEventTimer(
            GuardsSpot(
              MoveGuards(
                UpdateLights(
                  UpdateCamera(
                    UpdateButtons(UpdateTimers(g, dt, rnd.spawn), dt),
                    dt),
                  dt),
                dt),
              rnd.spotted),
            dt, rnd.event),
          dt)))

\* the callbacks the manager made during its update, applied to the game
ApplyCallbacks(g, fired) ==
    IF fired = <<>> THEN g ELSE _on_state_change(g, fired[1].arg)

\* the early return of update on transition_result['active']
TransitionBlocksUpdate_mut(result) == FALSE
TransitionBlocksUpdate(result) == result.active

\* update(dt) from line 857 on: u is what transition_manager.update(dt)
\* returned and g the game after the callbacks it made
UpdateAfterTransition(g, u, dt, rnd) ==
    [ g |-> IF TransitionBlocksUpdate(u.result) THEN g
            ELSE IF g.state = "menu" THEN g
            ELSE IF g.state # "playing" \/ g.paused THEN g
            ELSE MissionFrame(g, dt, rnd),
      t |-> u.t,
      result |-> u.result ]

UpdateWithResult(g, u, dt, rnd) ==
    UpdateAfterTransition(ApplyCallbacks(g, u.fired), u, dt, rnd)

\* update(dt)
StealthGame_update(g, t, dt, rnd) ==
    UpdateWithResult(g, TransitionManager_update(t, dt), dt, rnd)

\* history of the stealth game: the last operation, for an update the
\* 'active' entry of the transition result it got and whether it went on to
\* the mission frame, and the number of input events handled so far
StealthHistInit ==
    [op |-> "init", tm_active |-> FALSE, frame |-> FALSE, inputs |-> 0]

StealthParked ==
    /\ sg = StealthGame_init([i \in 1..num_guards |-> Guard_init(8 * TicksPerSecond)])
    /\ shist = StealthHistInit

(***************************************************************************)
(* Silksong, the action game (main.py).  The game object is kept as its    *)
(* screen state, the running flag, the enemy and the contact-damage timer; *)
(* the player is the Hornet object above and the transition manager is the *)
(* TransitionManager above.  Positions are not modelled: whether the       *)
(* player's attack box and the player's own box collide with the enemy's   *)
(* box is an input of each frame.  Camera, particles, sound, the settings  *)
(* menu's own widgets and the save files' contents are not modelled.       *)
(*                                                                         *)
(* A world w is [game, player, tm, contacts]; contacts is a history count  *)
(* of the contact-damage applications made so far.                         *)
(***************************************************************************)

attack_damage == 1
silk_per_hit == 1
MossGrub_max_health == 2
\* seconds in the source, ticks here
player_contact_damage_cooldown == (75 * TicksPerSecond) \div 100

\* The object MossGrub.__init__ builds.  In the source the constructor reads
\* self.rect (mossgrub.py:24) one line before it assigns it (mossgrub.py:25),
\* which raises AttributeError; the model describes the enemy the remaining
\* statements build, so that the combat loop can be examined.
MossGrub_init == [present |-> TRUE, health |-> MossGrub_max_health]

MossGrub_take_damage(m, damage) == [m EXCEPT !.health = Max(0, m.health - damage)]

\* Silksong.__init__; player_set is 'self.player is not None' and a mossgrub
\* that is not present is 'self.mossgrub = None'
Silksong_init ==
    [ state |-> "title screen",
      running |-> TRUE,
      player_set |-> FALSE,
      mossgrub |-> [present |-> FALSE, health |-> 0],
      player_contact_damage_timer |-> 0 ]

change_state(w, new_state) ==
    [w EXCEPT !.tm = start_transition(@,
        [ target_state |-> new_state,
          transition_type |-> "FADE_COLOR",
          speed |-> SomeSpeed(2),
          completion_callback |-> NoCallback,
          state_change_callback |-> [fn |-> "on_state_change", id |-> 0],
          path |-> "none" ]).t]

\* the closure on_state_change of change_state, run for every callback the
\* manager fired during its update
on_state_change(w, fired) ==
    IF fired = <<>> THEN w ELSE [w EXCEPT !.game.state = fired[1].arg]

\* handle_events, the branch taken when a save slot is selected: the player
\* and the enemy are created, health and silk are restored from the slot,
\* the contact timer is reset and the game is entered through a transition
\* A save slot's file on disk: absent, not parseable as JSON, or a JSON
\* object, with or without the player's stats (create_game_file writes one
\* without them, save_current_game_state one with them).
AbsentFile == [status |-> "absent", has_stats |-> FALSE, health |-> 0, silk |-> 0]
CorruptFile == [status |-> "corrupt", has_stats |-> FALSE, health |-> 0, silk |-> 0]
PlainFile == [status |-> "ok", has_stats |-> FALSE, health |-> 0, silk |-> 0]
StatsFile(health, silk) ==
    [status |-> "ok", has_stats |-> TRUE, health |-> health, silk |-> silk]

\* load_game_file: None for an absent file; json.load raises
\* json.JSONDecodeError on a corrupt one, which `except IOError` lets pass.
load_game_file(file) ==
    CASE file.status = "absent" -> [error |-> "none", state |-> AbsentFile]
      [] file.status = "corrupt" -> [error |-> "JSONDecodeError", state |-> AbsentFile]
      [] OTHER -> [error |-> "none", state |-> file]

create_game_file == PlainFile

\* SaveFile.handle_event for a click on a save slot: the file as the click
\* leaves it and the exception that left the handler, if any
SaveFile_handle_event(file) ==
    IF load_game_file(file).error # "none"
    THEN [error |-> load_game_file(file).error, file |-> file]
    ELSE IF load_game_file(file).state.status = "ok"
    THEN [error |-> "none", file |-> file]
    ELSE [error |-> "none", file |-> create_game_file]

\* loaded_state.get("player_health", self.player.health) and the same for
\* silk, on `load_game_file(slot) or {}`
SavedHealth(loaded) ==
    IF loaded.status = "ok" /\ loaded.has_stats THEN loaded.health ELSE Hornet_init(max_health, 0).health
SavedSilk(loaded) ==
    IF loaded.status = "ok" /\ loaded.has_stats THEN loaded.silk ELSE Hornet_init(max_health, 0).silk

StartGame(w, saved_health, saved_silk) ==
    change_state([w EXCEPT !.player = Hornet_init(saved_health, saved_silk),
                           !.game.player_set = TRUE,
                           !.game.mossgrub = MossGrub_init,
                           !.game.player_contact_damage_timer = 0],
                 "game")

SelectSlot(w, file) ==
    IF SaveFile_handle_event(file).error # "none"
    THEN [w EXCEPT !.error = SaveFile_handle_event(file).error]
    ELSE IF load_game_file(SaveFile_handle_event(file).file).error # "none"
    THEN [w EXCEPT !.error = load_game_file(SaveFile_handle_event(file).file).error]
    ELSE StartGame(w, SavedHealth(load_game_file(SaveFile_handle_event(file).file).state),
                      SavedSilk(load_game_file(SaveFile_handle_event(file).file).state))

\* handle_events for one event.  ev.kind is "quit" (QUIT or the escape key),
\* a click on a title-screen button ("start", "settings", "exit"), the
\* settings menu having been closed ("settings_closed"), or an action of the
\* save-file screen ("close", "slot" with the slot's file).
DispatchEvent(w, ev) ==
    IF w.tm.active THEN w
    ELSE IF w.game.state = "settings"
    THEN IF ev.kind = "settings_closed" THEN change_state(w, "title screen") ELSE w
    ELSE IF w.game.state = "title screen"
    THEN CASE ev.kind = "start" -> change_state(w, "save files")
           [] ev.kind = "exit" -> [w EXCEPT !.game.running = FALSE]
           [] ev.kind = "settings" -> change_state(w, "settings")
           [] OTHER -> w
    ELSE IF w.game.state = "save files"
    THEN CASE ev.kind = "close" -> change_state(w, "title screen")
           [] ev.kind = "slot" -> SelectSlot(w, ev.file)
           [] OTHER -> w
    ELSE w

handle_events(w, ev) ==
    DispatchEvent([w EXCEPT !.game.running = @ /\ ev.kind # "quit"], ev)

\* update_game.  inp is the frame's input: the held keys, dt, whether the
\* attack box collides with the enemy (attack_hits) and whether the player's
\* box collides with the enemy (overlap).
TickContactTimer(w, dt) ==
    [w EXCEPT !.game.player_contact_damage_timer =
                  IF @ > 0 THEN Max(0, @ - dt) ELSE @]

ResolveAttack_mut(w, attack_hits) ==
    IF consume_attack_trigger(w.player).ret
    THEN [w EXCEPT !.player = gain_silk(consume_attack_trigger(@).p, silk_per_hit),
                   !.game.mossgrub = MossGrub_take_damage(@, attack_damage)]
    ELSE [w EXCEPT !.player = consume_attack_trigger(@).p]
ResolveAttack(w, attack_hits) ==
    IF consume_attack_trigger(w.player).ret /\ attack_hits
    THEN [w EXCEPT !.player = gain_silk(consume_attack_trigger(@).p, silk_per_hit),
                   !.game.mossgrub = MossGrub_take_damage(@, attack_damage)]
    ELSE [w EXCEPT !.player = consume_attack_trigger(@).p]

ContactDue_mut(w, overlap) == overlap
ContactDue(w, overlap) == overlap /\ w.game.player_contact_damage_timer <= 0

ResolveContact(w, overlap) ==
    IF ContactDue(w, overlap)
    THEN [w EXCEPT !.player = take_damage(@, 1),
                   !.game.player_contact_damage_timer = player_contact_damage_cooldown,
                   !.contacts = @ + 1]
    ELSE w

EnemyInPlay(w) == w.game.mossgrub.present /\ w.game.mossgrub.health > 0

ResolveCombat(w, inp) ==
    IF EnemyInPlay(w)
    THEN ResolveContact(ResolveAttack(w, inp.attack_hits), inp.overlap)
    ELSE w

update_game(w, inp) ==
    IF w.game.player_set
    THEN ResolveCombat(
             TickContactTimer(
                 [w EXCEPT !.player = Hornet_update(handle_input(@, inp.keys), inp.dt)],
                 inp.dt),
             inp)
    ELSE w

\* Silksong.update after the transition manager's update: the callbacks the
\* manager fired have run, then the scene of the current state is updated
UpdateScene(w, inp) ==
    IF w.game.state = "game" THEN update_game(w, inp) ELSE w

Silksong_update(w, inp) ==
    UpdateScene(
        on_state_change([w EXCEPT !.tm = TransitionManager_update(@, inp.dt).t],
                        TransitionManager_update(w.tm, inp.dt).fired),
        inp)

\* history of the action game: the last operation; for an update its inputs,
\* whether update_game ran and whether the transition manager was active
\* when it did, whether the enemy was in play and the contact timer had run
\* out when combat was resolved, whether contact damage was applied, the dt
\* accumulated since the previous application (gap, capped at the cooldown)
\* and, for the current run of consecutive 1/60 s frames with the boxes
\* overlapping an enemy in play, the contact flags of its last three frames
GameHistInit ==
    [ op |-> "init", frames |-> 0, overlap |-> FALSE,
      ran |-> FALSE, tm_active |-> FALSE, in_play |-> FALSE, ready |-> FALSE,
      contact |-> FALSE, gap |-> player_contact_damage_cooldown,
      since |-> player_contact_damage_cooldown, run |-> <<>>,
      saved_health |-> 0, saved_silk |-> 0, file |-> "none", error |-> "none" ]

GameParked ==
    /\ game = Silksong_init
    /\ ghist = GameHistInit

(***************************************************************************)
(* Animation, the sprite-frame player (animation.py).  Frames are kept as  *)
(* their number only; sprite-sheet extraction, the frame cache, scaling    *)
(* and drawing are not modelled.  Times are whole numbers of an arbitrary  *)
(* unit.  The while loop of update is taken one iteration at a time: pc is *)
(* "idle" between calls and "loop" while an update call is at the loop's   *)
(* test.                                                                   *)
(***************************************************************************)

AnimNames == {"a", "b"}

\* a name that is not a key of self.animations
NoClip == [registered |-> FALSE, n |-> 0, durations |-> <<>>,
           loop |-> FALSE, pingpong |-> FALSE]

Animation_init ==
    [ animations |-> [k \in AnimNames |-> NoClip],
      current_animation |-> "None",
      elapsed |-> 0,
      current_frame |-> 0,
      playing |-> TRUE,
      finished |-> FALSE,
      pingpong |-> FALSE,
      reverse |-> FALSE,
      pc |-> "idle" ]

\* args.frames is len(frames) once frames are at hand, or -1 when neither
\* frames nor a row with num_frames > 0 is given; args.durations is None
\* (given = FALSE) or a list
DurationsMismatch(args) ==
    args.durations.given /\ Len(args.durations.v) # args.frames

add_animation_error(args) ==
    IF args.frames < 0 \/ DurationsMismatch(args) THEN "ValueError" ELSE "none"

add_animation_mut(a, args) ==
    IF args.frames < 0 THEN a
    ELSE [a EXCEPT !.animations[args.name] =
            [ registered |-> TRUE,
              n |-> args.frames,
              durations |-> IF args.durations.given THEN args.durations.v
                            ELSE [i \in 1..args.frames |-> args.speed],
              loop |-> args.loop,
              pingpong |-> args.pingpong ]]

add_animation(a, args) ==
    IF add_animation_error(args) # "none" THEN a
    ELSE [a EXCEPT !.animations[args.name] =
            [ registered |-> TRUE,
              n |-> args.frames,
              durations |-> IF args.durations.given THEN args.durations.v
                            ELSE [i \in 1..args.frames |-> args.speed],
              loop |-> args.loop,
              pingpong |-> args.pingpong ]]

set_animation_error(a, name) ==
    IF a.animations[name].registered THEN "none" ELSE "KeyError"

set_animation(a, name, reset, reverse) ==
    IF set_animation_error(a, name) # "none" THEN a
    ELSE IF name # a.current_animation \/ reset
    THEN [a EXCEPT !.current_animation = name,
                   !.current_frame = IF reverse THEN a.animations[name].n - 1 ELSE 0,
                   !.elapsed = 0,
                   !.playing = TRUE,
                   !.finished = FALSE,
                   !.reverse = reverse,
                   !.pingpong = a.animations[name].pingpong]
    ELSE a

\* the clip update works on
CurrentClip(a) == a.animations[a.current_animation]

\* update up to the loop: the early returns, then elapsed += dt
UpdateReturnsEarly(a) ==
    \/ ~a.playing
    \/ a.current_animation = "None"
    \/ a.finished
    \/ Len(CurrentClip(a).durations) = 0

Animation_update(a, dt) ==
    IF UpdateReturnsEarly(a) THEN a
    ELSE [a EXCEPT !.elapsed = @ + dt, !.pc = "loop"]

\* durations[self.current_frame] of the loop's test: a Python list index,
\* negative indices counting from the end; HasDuration is false where the
\* source raises IndexError
HasDuration(a) ==
    /\ a.current_frame < Len(CurrentClip(a).durations)
    /\ a.current_frame >= -Len(CurrentClip(a).durations)

CurrentDuration(a) ==
    CurrentClip(a).durations[
        IF a.current_frame >= 0 THEN a.current_frame + 1
        ELSE Len(CurrentClip(a).durations) + a.current_frame + 1]

\* the out-of-bounds handling for frame index f of a clip of n frames
WrapFrame(f, n) == IF f >= n THEN 0 ELSE n - 1

OutOfBounds_mut(a, f, clip) ==
    IF clip.pingpong
    THEN [a EXCEPT !.reverse = ~a.reverse,
                   !.current_frame = IF ~a.reverse THEN clip.n - 1 ELSE 0]
    ELSE IF clip.loop
    THEN [a EXCEPT !.current_frame = WrapFrame(f, clip.n)]
    ELSE [a EXCEPT !.current_frame = IF f >= clip.n THEN clip.n - 1 ELSE 0,
                   !.playing = FALSE,
                   !.finished = TRUE,
                   !.pc = "idle"]
OutOfBounds(a, f, clip) ==
    IF clip.pingpong
    THEN [a EXCEPT !.reverse = ~a.reverse,
                   !.current_frame =
                       IF ~a.reverse
                       THEN (IF clip.n > 1 THEN clip.n - 2 ELSE 0)
                       ELSE (IF clip.n > 1 THEN 1 ELSE 0)]
    ELSE IF clip.loop
    THEN [a EXCEPT !.current_frame = WrapFrame(f, clip.n)]
    ELSE [a EXCEPT !.current_frame = IF f >= clip.n THEN clip.n - 1 ELSE 0,
                   !.playing = FALSE,
                   !.finished = TRUE,
                   !.pc = "idle"]

\* the step to frame index f, made after elapsed has been reduced
StepTo(a, f, clip) ==
    IF 0 <= f /\ f < Len(clip.durations)
    THEN [a EXCEPT !.current_frame = f]
    ELSE OutOfBounds(a, f, [clip EXCEPT !.n = Len(clip.durations)])

\* one evaluation of the while loop's test, followed by the loop's body when
\* the test holds
LoopIteration(a) ==
    IF ~HasDuration(a) THEN [a EXCEPT !.pc = "idle"]
    ELSE IF a.elapsed < CurrentDuration(a) THEN [a EXCEPT !.pc = "idle"]
    ELSE StepTo([a EXCEPT !.elapsed = @ - CurrentDuration(a)],
                IF a.reverse THEN a.current_frame - 1 ELSE a.current_frame + 1,
                CurrentClip(a))

pause(a) == [a EXCEPT !.playing = FALSE]

resume(a) == IF a.finished THEN a ELSE [a EXCEPT !.playing = TRUE]

reset(a) ==
    [a EXCEPT !.current_frame = 0, !.elapsed = 0, !.finished = FALSE,
              !.playing = TRUE]

\* history of the player: the last operation, the error it raised and
\* whether it left the player as it was (same), the number of update and
\* add_animation calls made, whether an add_animation call
\* has failed on its durations, the time by which playback has advanced
\* since the clip was set, reset or registered (adv, capped), and the
\* measurement of one round of a looping clip: the frame index at its
\* start (round_frame), the time left to the end of the round (round_left,
\* -1 when no round is being measured)
\* and whether the last update ended exactly at the end of a round, and
\* the end of a pingpong clip at which the last iteration of update's loop
\* turned round (bounce: "end", "start" or "none")
AnimHistInit ==
    [ op |-> "init", err |-> "none", same |-> TRUE,
      adds |-> 0, updates |-> 0, mismatch_seen |-> FALSE, adv |-> 0,
      round_frame |-> 0, round_left |-> -1, round_done |-> FALSE,
      round_was |-> 0, bounce |-> "none" ]

AnimParked ==
    /\ anim = Animation_init
    /\ ahist = AnimHistInit

(***************************************************************************)
(* The particle system (particles.py).  The list of particles is kept as a *)
(* sequence of runs: a run stands for n consecutive list entries of one    *)
(* kind with the same remaining life.  Positions, velocities, sizes and    *)
(* colours do not influence how many particles there are and are left out. *)
(* Time is counted in PsTick = 1/PsTicksPerSecond seconds; the screen      *)
(* shake's amplitude in units of what it loses in one PsTick (8/40 pixel). *)
(* The system is built with a screen size, as main.py:119 builds it.       *)
(***************************************************************************)
PsTicksPerSecond == 40
SPARK_MAX == 500
SMOKE_MAX == 500
EMBER_MAX == 1000
SparkLife == <<(35 * PsTicksPerSecond) \div 100, (90 * PsTicksPerSecond) \div 100>>
SmokeLife == <<(90 * PsTicksPerSecond) \div 100, 2 * PsTicksPerSecond>>
EmberLife == <<15 * PsTicksPerSecond, 20 * PsTicksPerSecond>>
EmberInterval == PsTicksPerSecond \div 10
PopupDuration == PsTicksPerSecond

ParticleSystem_init ==
    [ particles |-> <<>>,
      float_texts |-> <<>>,
      shake_amount |-> 0,
      shake_time |-> 0,
      shake_duration |-> 0,
      screen_given |-> TRUE,
      ember_image |-> FALSE,
      ember_spawn_timer |-> 0,
      ember_enabled |-> FALSE ]

RECURSIVE ParticleCount(_)
ParticleCount(runs) ==
    IF runs = <<>> THEN 0 ELSE Head(runs).n + ParticleCount(Tail(runs))

KindCount(runs, kinds) ==
    ParticleCount(SelectSeq(runs, LAMBDA r : r.type \in kinds))

\* to_spawn of the three spawn methods: min(count, max(0, MAX - len))
to_spawn_mut(count, len, MAX) == count
to_spawn(count, len, MAX) == Min(count, Max(0, MAX - len))

\* range(to_spawn) appends to_spawn entries, none when to_spawn <= 0; each
\* entry draws its own life: `short` of them get the least life of the
\* kind's range and the others the greatest.
AppendParticles(runs, type, k, short, life) ==
    IF k <= 0 THEN runs
    ELSE runs
         \o (IF short > 0 THEN <<[type |-> type, life |-> life[1], n |-> short]>> ELSE <<>>)
         \o (IF k - short > 0 THEN <<[type |-> type, life |-> life[2], n |-> k - short]>> ELSE <<>>)

LifeSplits(k) == IF k <= 0 THEN {0} ELSE {0, k \div 2, k}

spawn_sparks(p, count, short) ==
    [p EXCEPT !.particles =
        AppendParticles(@, "spark", to_spawn(count, ParticleCount(@), SPARK_MAX),
                        short, SparkLife)]

spawn_smoke(p, count, short) ==
    [p EXCEPT !.particles =
        AppendParticles(@, "smoke", to_spawn(count, ParticleCount(@), SMOKE_MAX),
                        short, SmokeLife)]

spawn_embers(p, count, short) ==
    [p EXCEPT !.particles =
        AppendParticles(@, "ember", to_spawn(count, ParticleCount(@), EMBER_MAX),
                        short, EmberLife)]

add_detection_popup(p) ==
    [p EXCEPT !.float_texts =
        Append(@, [time |-> PopupDuration, duration |-> PopupDuration, alpha |-> 255])]

AgeParticles(runs, dt) ==
    SelectSeq([i \in 1..Len(runs) |-> [runs[i] EXCEPT !.life = @ - dt]],
              LAMBDA r : r.life > 0)

\* int() truncates towards zero and max(0, ...) removes what is negative
TextAlpha(time, duration) ==
    IF time <= 0 THEN 0 ELSE (255 * time) \div duration

AgeTexts(fts, dt) ==
    SelectSeq([i \in 1..Len(fts) |->
                  [fts[i] EXCEPT !.time = @ - dt,
                                 !.alpha = TextAlpha(fts[i].time - dt, fts[i].duration)]],
              LAMBDA ft : ft.time > 0)

DecayShake(p, dt) ==
    IF p.shake_time > 0
    THEN IF p.shake_time - dt <= 0
         THEN [p EXCEPT !.shake_amount = 0, !.shake_time = 0, !.shake_duration = 0]
         ELSE [p EXCEPT !.shake_time = @ - dt]
    ELSE [p EXCEPT !.shake_amount = Max(0, @ - dt)]

AutoEmbers(p, dt, short) ==
    IF p.ember_enabled /\ p.ember_image /\ p.screen_given
    THEN IF p.ember_spawn_timer + dt >= EmberInterval
         THEN spawn_embers([p EXCEPT !.ember_spawn_timer = 0], 1, short)
         ELSE [p EXCEPT !.ember_spawn_timer = @ + dt]
    ELSE p

ParticleSystem_update(p, dt, short) ==
    AutoEmbers(DecayShake([p EXCEPT !.particles = AgeParticles(@, dt),
                                    !.float_texts = AgeTexts(@, dt)], dt),
               dt, short)

ParticleSystem_clear(p) ==
    [p EXCEPT !.particles = <<>>,
              !.float_texts = <<>>,
              !.shake_amount = 0,
              !.shake_time = 0,
              !.shake_duration = 0]

start_shake(p, amount, duration) ==
    [p EXCEPT !.shake_amount = Max(@, amount),
              !.shake_time = duration,
              !.shake_duration = duration]

enable_ember_spawning(p, enabled) == [p EXCEPT !.ember_enabled = enabled]

load_ember_image(p) == [p EXCEPT !.ember_image = TRUE]

PsHistInit ==
    [ op |-> "init", count |-> 0, before |-> 0, calls |-> 0, updates |-> 0,
      grew |-> FALSE, truncated |-> FALSE ]

PartParked ==
    /\ ps = ParticleSystem_init
    /\ pshist = PsHistInit

(***************************************************************************)
(* The guard's field of view (guard.py:97-107).  Angles are whole degrees. *)
(* A guard's position is the float that __init__ and update store (the     *)
(* fraction of the patrol route walked), or a pair of coordinates that a   *)
(* caller assigned; the points looked at lie on the axes and diagonals     *)
(* through the guard, where atan2 is a whole number of degrees.            *)
(***************************************************************************)
view_distance == 220
view_angle == 60

FloatPosition == [kind |-> "float", x |-> 0, y |-> 0]
PairPosition(x, y) == [kind |-> "pair", x |-> x, y |-> y]

Guard_view(position, facing_angle) ==
    [ view_distance |-> view_distance,
      view_angle |-> view_angle,
      facing_angle |-> facing_angle,
      position |-> position ]

\* math.degrees(math.atan2(dy, dx)) on the axes and the diagonals
Atan2Deg(dy, dx) ==
    CASE dy = 0 /\ dx >= 0 -> 0
      [] dy = 0 /\ dx < 0 -> 180
      [] dx = 0 /\ dy > 0 -> 90
      [] dx = 0 /\ dy < 0 -> -90
      [] dx > 0 /\ dy = dx -> 45
      [] dx > 0 /\ dy = -dx -> -45
      [] dx < 0 /\ dy = -dx -> 135
      [] dx < 0 /\ dy = dx -> -135

\* math.hypot(dx, dy) > view_distance, compared on the squares
TooFar(gd, dx, dy) == dx * dx + dy * dy > gd.view_distance * gd.view_distance

Abs(n) == IF n < 0 THEN -n ELSE n

AngleDiff(angle_to_point, facing_angle) ==
    ((angle_to_point - facing_angle + 360) % 360) - 180

\* abs(diff) <= view_angle / 2
WithinCone(gd, diff) == 2 * Abs(diff) <= gd.view_angle

is_in_sight(gd, point) ==
    IF gd.position.kind # "pair" THEN "TypeError"
    ELSE IF TooFar(gd, point[1] - gd.position.x, point[2] - gd.position.y) THEN "False"
    ELSE IF WithinCone(gd, AngleDiff(Atan2Deg(point[2] - gd.position.y,
                                              point[1] - gd.position.x),
                                     gd.facing_angle))
         THEN "True" ELSE "False"

\* Guard.update stores the fraction of the route walked in self.position
Guard_update_position(gd) == [gd EXCEPT !.position = FloatPosition]

SightHistInit == [op |-> "init", point |-> <<0, 0>>, result |-> "none", checks |-> 0]

SightParked ==
    /\ sentry = Guard_view(FloatPosition, 0)
    /\ sight = SightHistInit

(***************************************************************************)
(* The enemy's patrol (mossgrub.py:89-94, called from main.py:208).  x is  *)
(* rect.x, counted from the player's rect.centerx, which the game never    *)
(* moves: the bounds are 400 pixels to either side.  A pygame Rect holds   *)
(* whole pixels, so the float assigned to rect.x is cut to an integer;     *)
(* rect.x is positive on the screen, where that is the floor.  Gravity and *)
(* the ground are not modelled.                                            *)
(***************************************************************************)
MossGrub_speed == 150
patrol_reach == 400

\* reset_position(start_x + 240, ...) on an enemy whose image is width
\* pixels wide, facing_right as __init__ left it
MossGrub_placed(width) == [x |-> 240 - width \div 2, facing_right |-> 1]

AtBound(m, max_x, min_x) == m.x >= max_x \/ m.x <= min_x

Turn(m, max_x, min_x) ==
    IF AtBound(m, max_x, min_x) THEN [m EXCEPT !.facing_right = -@] ELSE m

Advance(m, dt) ==
    [m EXCEPT !.x = (@ * TicksPerSecond + MossGrub_speed * m.facing_right * dt)
                      \div TicksPerSecond]

\* MossGrub.update(max_x, min_x, dt)
MossGrub_update(m, max_x, min_x, dt) == Advance(Turn(m, max_x, min_x), dt)

PatrolWidths == {60, 81}

PatrolParked == grub = MossGrub_placed(CHOOSE w \in PatrolWidths : TRUE)

AfterPartParked == SightParked /\ PatrolParked

AfterAnimParked == PartParked /\ AfterPartParked

RestParked == AnimParked /\ AfterAnimParked

(***************************************************************************)
(* Specification SpecTM: a TransitionManager driven by an arbitrary client *)
(***************************************************************************)

MaxTransitions == 2

TMDefaultSpeed == 700
TMStates == {"A"}
\* (transition_type, path) pairs handed to start_transition
TMContents == { <<"FADE_COLOR", "none">>,
                <<"FADE_VIDEO", "none">>, <<"FADE_VIDEO", "missing">>,
                <<"FADE_VIDEO", "bad">>, <<"FADE_VIDEO", "ok">>,
                <<"FADE_IMAGE", "none">>, <<"FADE_IMAGE", "missing">>,
                <<"FADE_IMAGE", "bad">>, <<"FADE_IMAGE", "ok">> }
TMSpeeds == {NoSpeed, SomeSpeed(500)}
TMCallbackKinds == {"None", "record", "restart"}
TMDtSet == {0, 40, 200}

TMHistInit ==
    /\ cb_log = <<>>
    /\ tm_gen = 0
    /\ tm_op = [op |-> "init", was_active |-> FALSE, ret |-> "none", dt |-> 0]

InitTM ==
    /\ tm = TransitionManager_init(TMDefaultSpeed)
    /\ TMHistInit
    /\ player = Hornet_init(max_health, 0)
    /\ hhist = HornetHistInit
    /\ StealthParked
    /\ GameParked
    /\ RestParked

TMStartArgs(target, content, sp, ccb, scb) ==
    [ target_state |-> target,
      transition_type |-> content[1],
      speed |-> sp,
      completion_callback |->
          IF ccb = "None" THEN NoCallback ELSE [fn |-> ccb, id |-> tm_gen + 1],
      state_change_callback |->
          IF scb = "None" THEN NoCallback ELSE [fn |-> scb, id |-> tm_gen + 1],
      path |-> content[2] ]

TMDoStart(a) ==
    LET s == start_transition(tm, a)
    IN /\ tm' = s.t
       /\ tm_gen' = tm_gen + s.started
       /\ tm_op' = [op |-> "start_transition", was_active |-> tm.active,
                    ret |-> BoolStr(s.ret), dt |-> 0]
       /\ UNCHANGED cb_log
       /\ UNCHANGED <<hornetVars, stealthVars, gameVars, restVars>>

\* start_transition on an idle manager, with every combination of arguments
TMStart ==
    /\ ~tm.active
    /\ tm_gen < MaxTransitions
    /\ \E target \in TMStates, content \in TMContents, sp \in TMSpeeds,
          ccb \in TMCallbackKinds, scb \in TMCallbackKinds :
         TMDoStart(TMStartArgs(target, content, sp, ccb, scb))

\* start_transition while a transition is in flight
TMStartBusy ==
    /\ tm.active
    /\ \E content \in {<<"FADE_COLOR", "none">>, <<"FADE_VIDEO", "ok">>},
          sp \in {NoSpeed, SomeSpeed(300)} :
         TMDoStart(TMStartArgs("B", content, sp, "record", "record"))

TMUpdate ==
    \E dt \in TMDtSet :
        LET u == TransitionManager_update(tm, dt)
        IN /\ tm' = u.t
           /\ cb_log' = cb_log \o u.fired
           /\ tm_gen' = tm_gen + u.started
           /\ tm_op' = [op |-> "update", was_active |-> tm.active,
                        ret |-> BoolStr(u.result.active), dt |-> dt]
           /\ UNCHANGED <<hornetVars, stealthVars, gameVars, restVars>>

TMClear ==
    /\ tm' = clear(tm)
    /\ tm_op' = [op |-> "clear", was_active |-> tm.active, ret |-> "none",
                 dt |-> 0]
    /\ UNCHANGED <<cb_log, tm_gen>>
    /\ UNCHANGED <<hornetVars, stealthVars, gameVars, restVars>>

NextTM == TMStart \/ TMStartBusy \/ TMUpdate \/ TMClear

SpecTM == InitTM /\ [][NextTM]_vars

(***************************************************************************)
(* Specification SpecHornet: the player driven the way the combat loop     *)
(* (Silksong.update_game, main.py:191-235) drives it: handle_input and     *)
(* update with any key state and dt, silk gained only through a consumed   *)
(* attack trigger, damage from contact.  The enemy and the geometry are    *)
(* left to the environment.                                                *)
(***************************************************************************)

MaxHits == 2

HornetDtSet == {0, 200, 300, 2 * TicksPerSecond}
HornetSavedHealth == 0..max_health
HornetSavedSilk == {0, 1, max_silk - 1, max_silk}
HornetDamages == {0, 1, 2}
HornetKeys == [shift : BOOLEAN, j : BOOLEAN]

InitHornet ==
    /\ \E h \in HornetSavedHealth, k \in HornetSavedSilk :
          player = Hornet_init(h, k)
    /\ hhist = HornetHistInit
    /\ tm = TransitionManager_init(TMDefaultSpeed)
    /\ TMHistInit
    /\ StealthParked
    /\ GameParked
    /\ RestParked

HornetHandleInput ==
    \E keys \in HornetKeys :
        /\ player' = handle_input(player, keys)
        /\ hhist' = [hhist EXCEPT !.op = "handle_input", !.keys = keys,
                                  !.dt = 0, !.damage = 0,
                                  !.elapsed = IF player.is_healing THEN @ ELSE 0]
        /\ UNCHANGED <<tmVars, stealthVars, gameVars, restVars>>

HornetUpdate ==
    \E dt \in HornetDtSet :
        /\ player' = Hornet_update(player, dt)
        /\ hhist' = [hhist EXCEPT !.op = "update", !.dt = dt, !.damage = 0,
                                  !.elapsed = IF player.is_healing
                                              THEN Min(@ + dt, heal_channel_duration)
                                              ELSE 0]
        /\ UNCHANGED <<tmVars, stealthVars, gameVars, restVars>>

\* main.py:213-231 with a hit-box that overlaps the enemy
HornetAttackHit ==
    /\ hhist.hits < MaxHits
    /\ LET c == consume_attack_trigger(player)
       IN /\ c.ret
          /\ player' = gain_silk(c.p, silk_per_hit)
    /\ hhist' = [hhist EXCEPT !.op = "attack_hit", !.dt = 0, !.damage = 0,
                              !.hits = @ + 1]
    /\ UNCHANGED <<tmVars, stealthVars, gameVars, restVars>>

\* main.py:233-235 (contact) with any amount of damage
HornetTakeDamage ==
    \E d \in HornetDamages :
        /\ player' = take_damage(player, d)
        /\ hhist' = [hhist EXCEPT !.op = "take_damage", !.dt = 0, !.damage = d]
        /\ UNCHANGED <<tmVars, stealthVars, gameVars, restVars>>

NextHornet ==
    HornetHandleInput \/ HornetUpdate \/ HornetAttackHit \/ HornetTakeDamage

SpecHornet == InitHornet /\ [][NextHornet]_vars

(***************************************************************************)
(* Specification SpecStealth: the stealth game's main loop (run), one      *)
(* action per input event handled by handle_events and one per update.     *)
(***************************************************************************)

\* secondary objectives are spawned only while the credits they can still
\* bring, together with those already earned, stay within MaxCredits
MaxCredits == 1
\* number of input events (clicks and key presses) handled in a run
MaxInputs == 4

\* a quarter of the mission and the whole of it
StealthDtSet == {15 * TicksPerSecond, 60 * TicksPerSecond}
GuardPatrolTimes == {8 * TicksPerSecond}
GuardStartTimes == {0}
GuardStagger == 3 * TicksPerSecond
\* the guard lists __init__ and reset_game can build: every guard with a patrol time of
\* GuardPatrolTimes, the guards GuardStagger apart on their rounds and the
\* first of them at one of GuardStartTimes
NewGuards ==
    { [i \in 1..num_guards |->
          [patrol_time |-> pt,
           current_time |-> (ct + (i - 1) * GuardStagger) % pt,
           alert |-> FALSE]] :
        pt \in GuardPatrolTimes, ct \in GuardStartTimes }
VideoFiles == {"ok", "missing"}
StealthKeys == {"escape", "1", "2", "3", "4"}

\* one point inside each button that the inputs use, a point on a secondary
\* objective and a point on nothing; (400, 415) is inside both quit_yes_btn
\* and pause_menu_btn, (490, 525) inside both distract and exit
ObjectivePoint == <<300, 250>>
ClickPoints ==
    { RectCenter(ButtonRect.camera), RectCenter(ButtonRect.lights),
      RectCenter(ButtonRect.distract), RectCenter(ButtonRect.hack),
      RectCenter(ButtonRect.menu), RectCenter(ButtonRect.pause_game),
      RectCenter(ButtonRect.pause_resume_btn),
      RectCenter(ButtonRect.pause_menu_btn),
      <<400, 415>>, <<600, 415>>, <<430, 440>>, <<570, 440>>,
      ObjectivePoint, <<50, 50>> }

NoSpawn == [x |-> 0, y |-> 0, reward |-> 0, time_left |-> 0]
SpawnRewards == {1, 3}
SpawnTimes == {30 * TicksPerSecond}

RECURSIVE SumRewards(_)
SumRewards(sos) ==
    IF sos = <<>> THEN 0 ELSE Head(sos).reward + SumRewards(Tail(sos))

SpawnChoices(g) ==
    {NoSpawn} \cup
    { [x |-> ObjectivePoint[1], y |-> ObjectivePoint[2],
       reward |-> r, time_left |-> tl] :
        r \in { q \in SpawnRewards :
                  g.currency + g.pending_credits
                    + SumRewards(g.secondary_objectives) + q <= MaxCredits },
        tl \in SpawnTimes }

\* the events list of trigger_random_event, the instant of the sweep at the
\* low end of its randint range and that of the scan at the high end
SecurityEvents ==
    { [kind |-> "sweep", duration |-> 6 * TicksPerSecond, instant |-> i,
       dps10 |-> 10] : i \in {5} }
    \cup { [kind |-> "shift", duration |-> 8 * TicksPerSecond, instant |-> 0,
            dps10 |-> 5] }
    \cup { [kind |-> "scan", duration |-> 5 * TicksPerSecond, instant |-> i,
            dps10 |-> 15] : i \in {16} }

InitStealth ==
    /\ tm = TransitionManager_init(TMDefaultSpeed)
    /\ TMHistInit
    /\ player = Hornet_init(max_health, 0)
    /\ hhist = HornetHistInit
    /\ \E gs \in NewGuards : sg = StealthGame_init(gs)
    /\ shist = StealthHistInit
    /\ GameParked
    /\ RestParked

\* run() handles the events of a frame, then updates; once running is
\* False the frame is finished and the loop is left
InLoop == shist.op # "exit" /\ (sg.running \/ shist.op = "input")

\* what a click at pos can draw in the state g: reset_game runs only from the
\* menu button and the quit dialog, the video file is opened only by the
\* menu's start button and the hack is rolled only on the hack button
ClickDraws(g, pos) ==
    [ guards : IF \/ static_clicked("menu", pos)
                  \/ (g.show_quit_confirmation /\ static_clicked("quit_yes_btn", pos))
               THEN NewGuards ELSE {g.guards},
      hack : IF g.state = "playing" /\ collidepoint(ButtonRect.hack, pos)
             THEN BOOLEAN ELSE {TRUE},
      video : IF g.state = "menu" /\ static_clicked("menu", pos)
              THEN VideoFiles ELSE {"none"} ]

StealthClick ==
    /\ InLoop
    /\ shist.inputs < MaxInputs
    /\ \E pos \in ClickPoints :
         \E rnd \in ClickDraws(sg, pos) :
           \E r \in {handle_click(sg, tm, pos, rnd)} :
              /\ sg' = r.g
              /\ tm' = r.t
    /\ shist' = [shist EXCEPT !.op = "input", !.tm_active = FALSE,
                              !.frame = FALSE, !.inputs = @ + 1]
    /\ UNCHANGED <<cb_log, tm_gen, tm_op, hornetVars, gameVars, restVars>>

StealthKey ==
    /\ InLoop
    /\ shist.inputs < MaxInputs
    /\ \E key \in StealthKeys :
         \E hack_ok \in IF key = "4" THEN BOOLEAN ELSE {TRUE} :
           sg' = _handle_keyboard(sg, key, hack_ok)
    /\ shist' = [shist EXCEPT !.op = "input", !.tm_active = FALSE,
                              !.frame = FALSE, !.inputs = @ + 1]
    /\ UNCHANGED <<tmVars, hornetVars, gameVars, restVars>>

\* the event handed to an update that does not come to choose one
UnusedEvent == CHOOSE ev \in SecurityEvents : ev.kind = "shift"

\* update gets past its early returns: no transition is active when it is
\* called (so no callback changes the state), a mission is on and not paused
MissionFrameRuns(g, t) == ~t.active /\ g.state = "playing" /\ ~g.paused

\* what an update of dt can draw in the state g: nothing unless the mission
\* frame runs, and an event only when the event timer comes due
UpdateDraws(g, t, dt) ==
    IF ~MissionFrameRuns(g, t)
    THEN { [spawn |-> NoSpawn, spotted |-> {}, event |-> UnusedEvent] }
    ELSE [ spawn : SpawnChoices(g),
           spotted : SUBSET { i \in 1..num_guards :
                                InDangerZone(Guard_update(g.guards[i], dt)) },
           event : IF g.event_timer + dt >= 5 * TicksPerSecond
                   THEN SecurityEvents ELSE {UnusedEvent} ]

StealthUpdate ==
    /\ InLoop
    /\ \E dt \in StealthDtSet :
         \E rnd \in UpdateDraws(sg, tm, dt) :
           \E r \in {StealthGame_update(sg, tm, dt, rnd)} :
              /\ sg' = r.g
              /\ tm' = r.t
              /\ shist' = [shist EXCEPT !.op = "update",
                                        !.tm_active = r.result.active,
                                        !.frame = MissionFrameRuns(sg, tm)]
    /\ UNCHANGED <<cb_log, tm_gen, tm_op, hornetVars, gameVars, restVars>>

\* the end of run(): transition_manager.clear()
StealthExit ==
    /\ ~sg.running
    /\ shist.op = "update"
    /\ tm' = clear(tm)
    /\ shist' = [shist EXCEPT !.op = "exit", !.tm_active = FALSE,
                              !.frame = FALSE]
    /\ UNCHANGED <<sg, cb_log, tm_gen, tm_op, hornetVars, gameVars, restVars>>

NextStealth == StealthClick \/ StealthKey \/ StealthUpdate \/ StealthExit

SpecStealth == InitStealth /\ [][NextStealth]_vars

(***************************************************************************)
(* Specification SpecMission: one mission of the stealth game, from the    *)
(* frame after the start transition has ended, played with the hack, the   *)
(* secondary objectives and the pause menu.                                *)
(***************************************************************************)

\* the draws of an update that runs no mission frame
NoDraws == [spawn |-> NoSpawn, spotted |-> {}, event |-> UnusedEvent]

\* run() from a click on START MISSION to the first update that finds the
\* transition over, with no other input
RECURSIVE RunTransition(_, _)
RECURSIVE RunTransitionStep(_)
RunTransition(g, t) ==
    IF ~t.active
    THEN [g |-> g, t |-> t]
    ELSE RunTransitionStep(StealthGame_update(g, t, TicksPerSecond, NoDraws))

RunTransitionStep(r) == RunTransition(r.g, r.t)

MissionStart(gs) ==
    RunTransition(reset_game(StealthGame_init(gs), gs),
                  start_transition(TransitionManager_init(TMDefaultSpeed),
                                   StartMissionArgs("ok")).t)

\* the history of a mission: as for the stealth game, and the number of
\* successful hacks of the mission
MissionHistInit ==
    [op |-> "init", tm_active |-> FALSE, frame |-> FALSE, inputs |-> 0,
     hacks_ok |-> 0]

InitMission ==
    /\ TMHistInit
    /\ player = Hornet_init(max_health, 0)
    /\ hhist = HornetHistInit
    /\ \E gs \in NewGuards :
         \E m \in {MissionStart(gs)} :
            /\ sg = m.g
            /\ tm = m.t
    /\ shist = MissionHistInit
    /\ GameParked
    /\ RestParked

\* the values of random.random() tried for the hack: the least, and the
\* greatest, which is above every success chance
HackRollsMission == {0, ChanceUnit - 1}

\* (400, 415) is inside both pause_menu_btn and quit_yes_btn
MissionPoints ==
    { RectCenter(ButtonRect.hack), ObjectivePoint,
      RectCenter(ButtonRect.pause_game),
      RectCenter(ButtonRect.pause_resume_btn), <<400, 415>> }

MissionClick ==
    /\ InLoop
    /\ \E pos \in MissionPoints :
         \E roll \in IF pos = RectCenter(ButtonRect.hack)
                     THEN HackRollsMission ELSE {0} :
           \E g \in {handle_click(sg, tm, pos,
                                  [guards |-> sg.guards,
                                   hack |-> HackSucceeds(sg, roll),
                                   video |-> "none"]).g} :
              /\ sg' = g
              /\ shist' = [shist EXCEPT
                             !.op = "input", !.tm_active = FALSE,
                             !.frame = FALSE,
                             !.hacks_ok =
                                 IF g.objective_progress > sg.objective_progress
                                 THEN @ + 1 ELSE @]
    /\ UNCHANGED <<tmVars, hornetVars, gameVars, restVars>>

MissionKey ==
    /\ InLoop
    /\ \E roll \in HackRollsMission :
         \E g \in {_handle_keyboard(sg, "4", HackSucceeds(sg, roll))} :
            /\ sg' = g
            /\ shist' = [shist EXCEPT
                           !.op = "input", !.tm_active = FALSE,
                           !.frame = FALSE,
                           !.hacks_ok =
                               IF g.objective_progress > sg.objective_progress
                               THEN @ + 1 ELSE @]
    /\ UNCHANGED <<tmVars, hornetVars, gameVars, restVars>>

NextMission == MissionClick \/ MissionKey \/ StealthUpdate

SpecMission == InitMission /\ [][NextMission]_vars

(***************************************************************************)
(* Specification SpecPlay: the first frames of a mission, coarse enough    *)
(* for the event timer to come due and fine enough for an event to last    *)
(* several frames, played with the lights action and with perks bought     *)
(* beforehand.                                                             *)
(***************************************************************************)

MaxPlayFrames == 4

PlayDtSet == {2 * TicksPerSecond, 3 * TicksPerSecond}

\* the events list of trigger_random_event with the instants of the sweep
\* at the low end of its range and around the threshold of the screen
\* shake, and that of the scan at the high end of its range
PlayEvents ==
    { [kind |-> "sweep", duration |-> 6 * TicksPerSecond, instant |-> i,
       dps10 |-> 10] : i \in {5, 9, 10} }
    \cup { [kind |-> "shift", duration |-> 8 * TicksPerSecond, instant |-> 0,
            dps10 |-> 5] }
    \cup { [kind |-> "scan", duration |-> 5 * TicksPerSecond, instant |-> i,
            dps10 |-> 15] : i \in {16} }

\* the perks a mission can start with: none, the Detection Shield bought
\* once and twice, and cooldown_reduction bought once and 25 times
PlayPerks ==
    { NoPerks,
      purchase_detection_resistance([perks |-> NoPerks]).perks,
      purchase_detection_resistance(
          purchase_detection_resistance([perks |-> NoPerks])).perks,
      [NoPerks EXCEPT !.cooldown_reduction = TicksPerSecond \div 5],
      [NoPerks EXCEPT !.cooldown_reduction = 25 * (TicksPerSecond \div 5)] }

\* the draws of a frame: no secondary objective appears
PlayDraws(g, dt) ==
    [ spawn : {NoSpawn},
      spotted : SUBSET { i \in 1..num_guards :
                           InDangerZone(Guard_update(g.guards[i], dt)) },
      event : IF g.event_timer + dt >= 5 * TicksPerSecond
              THEN PlayEvents ELSE {UnusedEvent} ]

\* the history of the play: the last operation, the dt and the draws of
\* the last frame, whether it triggered an event and started a shake, the
\* triggered event found another one running, the play time accumulated
\* since the last event and the number of frames
PlayHistInit ==
    [ op |-> "init", tm_active |-> FALSE, frame |-> FALSE, inputs |-> 0,
      dt |-> 0, rnd |-> NoDraws, triggered |-> FALSE, shake |-> FALSE,
      replaced |-> FALSE, since |-> 0, frames |-> 0 ]

InitPlay ==
    /\ TMHistInit
    /\ player = Hornet_init(max_health, 0)
    /\ hhist = HornetHistInit
    /\ \E gs \in NewGuards, pk \in PlayPerks :
         \E m \in {MissionStart(gs)} :
            /\ sg = [m.g EXCEPT !.perks = pk]
            /\ tm = m.t
    /\ shist = PlayHistInit
    /\ GameParked
    /\ RestParked

\* one frame of the mission
PlayFrame ==
    /\ MissionFrameRuns(sg, tm)
    /\ shist.frames < MaxPlayFrames
    /\ \E dt \in PlayDtSet :
         \E rnd \in PlayDraws(sg, dt) :
           \E r \in {StealthGame_update(sg, tm, dt, rnd)} :
              /\ sg' = r.g
              /\ tm' = r.t
              /\ shist' = [shist EXCEPT
                             !.op = "update", !.tm_active = r.result.active,
                             !.frame = TRUE, !.dt = dt, !.rnd = rnd,
                             !.triggered = (shist.since + dt >= 5 * TicksPerSecond),
                             !.shake = (sg.event_timer + dt >= 5 * TicksPerSecond
                                          /\ EventShakes(rnd.event)),
                             !.replaced = (sg.event_timer + dt >= 5 * TicksPerSecond
                                             /\ sg.current_event.kind # "None"),
                             !.since = IF shist.since + dt >= 5 * TicksPerSecond
                                       THEN 0 ELSE @ + dt,
                             !.frames = @ + 1]
    /\ UNCHANGED <<cb_log, tm_gen, tm_op, hornetVars, gameVars, restVars>>

\* a click on the lights button, at most one lights action per frame
PlayLightsClick ==
    /\ MissionFrameRuns(sg, tm)
    /\ shist.op # "lights"
    /\ sg.buttons.lights.active
    /\ \E r \in {handle_click(sg, tm, RectCenter(ButtonRect.lights),
                              [guards |-> sg.guards, hack |-> TRUE,
                               video |-> "none"])} :
          /\ sg' = r.g
          /\ tm' = r.t
    /\ shist' = [shist EXCEPT !.op = "lights", !.tm_active = FALSE,
                              !.frame = FALSE]
    /\ UNCHANGED <<cb_log, tm_gen, tm_op, hornetVars, gameVars, restVars>>

\* the hotkey 2
PlayLightsKey ==
    /\ MissionFrameRuns(sg, tm)
    /\ shist.op # "lights"
    /\ sg.buttons.lights.active
    /\ sg' = _handle_keyboard(sg, "2", TRUE)
    /\ shist' = [shist EXCEPT !.op = "lights", !.tm_active = FALSE,
                              !.frame = FALSE]
    /\ UNCHANGED <<tmVars, hornetVars, gameVars, restVars>>

NextPlay == PlayFrame \/ PlayLightsClick \/ PlayLightsKey

SpecPlay == InitPlay /\ [][NextPlay]_vars

(***************************************************************************)
(* Specification SpecHack: the hack branch of _handle_game_clicks as a     *)
(* function of the detection level, the cooldown_reduction perk and the    *)
(* value random.random() returns.                                          *)
(***************************************************************************)

\* detection levels 0, 0.5, 1, ... up to MaxHalfPoints halves of a point
MaxHalfPoints == 200
HackDetectionLevels ==
    { d * (DetectionUnit \div 2) : d \in 0..MaxHalfPoints }

\* cooldown_reduction after n purchases of the perk, 0.2 s each: none, one,
\* and those around the floors of the two hack cooldowns
HackPurchases == {0, 1, 10, 11, 15, 16}
HackCooldownReductions ==
    { n * (TicksPerSecond \div 5) : n \in HackPurchases }

\* values of random.random(): the ends of its range and the values at and
\* just above 0.4 and 0.85 - d / 120
HackRolls(d) ==
    { r \in { 0, (4 * ChanceUnit) \div 10, (4 * ChanceUnit) \div 10 + 1,
              (85 * ChanceUnit) \div 100 - d,
              (85 * ChanceUnit) \div 100 - d + 1, ChanceUnit - 1 } :
        0 <= r /\ r < ChanceUnit }

\* the history of a hack: the operation and the value random.random() gave
HackHistInit == [op |-> "init", roll |-> 0]

InitHack ==
    /\ tm = TransitionManager_init(TMDefaultSpeed)
    /\ TMHistInit
    /\ player = Hornet_init(max_health, 0)
    /\ hhist = HornetHistInit
    /\ \E gs \in NewGuards, d \in HackDetectionLevels,
          cr \in HackCooldownReductions :
         sg = [reset_game(StealthGame_init(gs), gs) EXCEPT
                 !.state = "playing",
                 !.detection_level = d,
                 !.perks.cooldown_reduction = cr]
    /\ shist = HackHistInit
    /\ GameParked
    /\ RestParked

\* a click on the HACK button
HackClick ==
    /\ shist.op = "init"
    /\ \E roll \in HackRolls(sg.detection_level) :
         /\ sg' = _handle_game_clicks(sg, RectCenter(ButtonRect.hack),
                                      HackSucceeds(sg, roll))
         /\ shist' = [op |-> "hack", roll |-> roll]
    /\ UNCHANGED <<tmVars, hornetVars, gameVars, restVars>>

\* the hotkey 4
HackKey ==
    /\ shist.op = "init"
    /\ \E roll \in HackRolls(sg.detection_level) :
         /\ sg' = _handle_keyboard(sg, "4", HackSucceeds(sg, roll))
         /\ shist' = [op |-> "hack", roll |-> roll]
    /\ UNCHANGED <<tmVars, hornetVars, gameVars, restVars>>

NextHack == HackClick \/ HackKey

SpecHack == InitHack /\ [][NextHack]_vars

(***************************************************************************)
(* Specification SpecGame: the action game's main loop (run), one action   *)
(* per event handled by handle_events and one per update.  The loop starts *)
(* on the title screen; the save files of the slots hold any health and    *)
(* silk, in range or not.                                                  *)
(***************************************************************************)

MaxFrames == 6

\* one frame at 60 fps, the contact cooldown, half a transition of speed 2
GameDtSet == {TicksPerSecond \div fps, player_contact_damage_cooldown,
              ProgressHalf \div 2}
\* (player_health, player_silk) pairs found in a save slot
GameSaved == {<<-1, -1>>, <<2, max_silk - 1>>, <<max_health + 2, max_silk + 21>>}
GameFiles ==
    {AbsentFile, CorruptFile, PlainFile} \cup {StatsFile(s[1], s[2]) : s \in GameSaved}
GameEvents ==
    [ kind : {"quit", "start", "settings", "exit", "settings_closed", "close"},
      file : {AbsentFile} ]
    \cup { [kind |-> "slot", file |-> f] : f \in GameFiles }
GameInputs ==
    [ keys : HornetKeys, dt : GameDtSet, attack_hits : BOOLEAN,
      overlap : BOOLEAN ]

World == [game |-> game, player |-> player, tm |-> tm, contacts |-> 0, error |-> "none"]

\* Silksong.__init__.  The manager's default_speed (1.5 in the source) is
\* used by no transition of the game: change_state always passes a speed.
InitGame ==
    /\ tm = TransitionManager_init(2)
    /\ TMHistInit
    /\ player = Hornet_init(max_health, 0)
    /\ hhist = HornetHistInit
    /\ StealthParked
    /\ game = Silksong_init
    /\ ghist = GameHistInit
    /\ RestParked

GameStarted(w) == w.game.player_set /\ ~game.player_set

GameEvent ==
    \E ev \in GameEvents :
        /\ game.running
        /\ ghist.error = "none"
        /\ \E r \in {handle_events(World, ev)} :
              /\ game' = r.game
              /\ player' = r.player
              /\ tm' = r.tm
              /\ ghist' = [ghist EXCEPT
                    !.op = IF GameStarted(r) \/ r.error # "none" THEN "slot" ELSE "event",
                    !.error = r.error,
                    !.file = IF GameStarted(r) \/ r.error # "none" THEN ev.file.status ELSE @,
                    !.saved_health = IF GameStarted(r) THEN ev.file.health ELSE @,
                    !.saved_silk = IF GameStarted(r) THEN ev.file.silk ELSE @]
        /\ UNCHANGED <<cb_log, tm_gen, tm_op, hhist, stealthVars, restVars>>

\* the frame's entry of the run of consecutive 1/60 s frames in which the
\* boxes overlap an enemy in play
LastThree(s) == IF Len(s) > 3 THEN SubSeq(s, Len(s) - 2, Len(s)) ELSE s

GameFrameHist(h, v, r, inp) ==
    [ h EXCEPT
        !.op = "update",
        !.frames = @ + 1,
        !.overlap = (v.game.state = "game" /\ inp.overlap),
        !.ran = (v.game.state = "game"),
        !.tm_active = v.tm.active,
        !.in_play = EnemyInPlay(v),
        !.ready = (TickContactTimer(v, inp.dt).game.player_contact_damage_timer <= 0),
        !.contact = (r.contacts > 0),
        !.gap = IF r.contacts > 0
                THEN Min(h.since + inp.dt, player_contact_damage_cooldown)
                ELSE @,
        !.since = IF v.game.state # "game" THEN @
                  ELSE IF r.contacts > 0 THEN 0
                  ELSE Min(@ + inp.dt, player_contact_damage_cooldown),
        !.run = IF v.game.state = "game" /\ EnemyInPlay(v) /\ inp.overlap
                   /\ inp.dt = TicksPerSecond \div fps
                THEN LastThree(Append(@,
                        [ contact |-> r.contacts > 0,
                          ready |-> TickContactTimer(v, inp.dt).game.player_contact_damage_timer <= 0 ]))
                ELSE <<>> ]

GameUpdate ==
    \E inp \in GameInputs :
        /\ game.running
        /\ ghist.error = "none"
        /\ ghist.frames < MaxFrames
        /\ \E u \in {TransitionManager_update(tm, inp.dt)} :
           \E v \in {on_state_change([World EXCEPT !.tm = u.t], u.fired)} :
           \E r \in {Silksong_update(World, inp)} :
              /\ game' = r.game
              /\ player' = r.player
              /\ tm' = r.tm
              /\ ghist' = GameFrameHist(ghist, v, r, inp)
        /\ UNCHANGED <<cb_log, tm_gen, tm_op, hhist, stealthVars, restVars>>

NextGame == GameEvent \/ GameUpdate

SpecGame == InitGame /\ [][NextGame]_vars

(***************************************************************************)
(* Specification SpecAnim: an Animation object driven by an arbitrary      *)
(* client, one action per method call and one per iteration of update's    *)
(* while loop.  No method is called while an update call is in its loop.   *)
(***************************************************************************)

MaxAdds == 2
MaxAnimUpdates == 3

AnimNoDurations == [given |-> FALSE, v |-> <<>>]
AnimArgs(frames, speed, durations, loop, pingpong) ==
    [ name |-> "a", frames |-> frames, speed |-> speed, durations |-> durations,
      loop |-> loop, pingpong |-> pingpong ]
\* the calls of add_animation: four frames of duration 2 (looping, played
\* once, pingpong), one pingpong frame, two frames of durations 1 and 2, two looping frames of
\* duration 1 and of duration 0, no frames at all, four frames with two
\* durations, and neither frames nor a row (frames = -1)
AnimAddArgs ==
    { AnimArgs(4, 2, AnimNoDurations, TRUE, FALSE),
      AnimArgs(4, 2, AnimNoDurations, FALSE, FALSE),
      AnimArgs(4, 2, AnimNoDurations, TRUE, TRUE),
      AnimArgs(1, 2, AnimNoDurations, TRUE, TRUE),
      AnimArgs(2, 2, [given |-> TRUE, v |-> <<1, 2>>], FALSE, FALSE),
      AnimArgs(2, 1, AnimNoDurations, TRUE, FALSE),
      AnimArgs(2, 0, AnimNoDurations, TRUE, FALSE),
      AnimArgs(0, 2, AnimNoDurations, TRUE, FALSE),
      AnimArgs(4, 2, [given |-> TRUE, v |-> <<1, 2>>], TRUE, FALSE),
      AnimArgs(-1, 2, AnimNoDurations, TRUE, FALSE) }
AnimDtSet == {0, 1, 2, 8}
AdvCap == 1 + CHOOSE m \in AnimDtSet : \A dt \in AnimDtSet : dt <= m

\* the length of one round of the current clip when it is a looping,
\* non-pingpong clip of n > 0 frames with one duration d > 0 for every
\* frame and the player is on one of its frames, and -1 otherwise
RoundLength(a) ==
    IF a.current_animation = "None" THEN -1
    ELSE IF /\ CurrentClip(a).loop /\ ~CurrentClip(a).pingpong
            /\ 0 <= a.current_frame
            /\ a.current_frame < Len(CurrentClip(a).durations)
            /\ \A i \in 1..Len(CurrentClip(a).durations) :
                  CurrentClip(a).durations[i] = CurrentClip(a).durations[1]
                  /\ CurrentClip(a).durations[i] > 0
    THEN Len(CurrentClip(a).durations) * CurrentClip(a).durations[1]
    ELSE -1

\* playback starts afresh in a: the measurements start again
AnimRestart(h, a) ==
    [h EXCEPT !.adv = 0, !.round_frame = a.current_frame,
              !.round_left = RoundLength(a), !.round_done = FALSE]

\* an update call has returned in a
AnimReturned(h, a) ==
    IF h.round_left = 0
    THEN [h EXCEPT !.round_done = TRUE, !.round_was = h.round_frame,
                   !.round_frame = a.current_frame, !.round_left = RoundLength(a)]
    ELSE IF h.round_left < 0
    THEN [h EXCEPT !.round_done = FALSE, !.round_frame = a.current_frame,
                   !.round_left = RoundLength(a)]
    ELSE [h EXCEPT !.round_done = FALSE]

AnimCall(h, op, err, same) ==
    [h EXCEPT !.op = op, !.err = err, !.same = same, !.round_done = FALSE]

InitAnim ==
    /\ tm = TransitionManager_init(TMDefaultSpeed)
    /\ TMHistInit
    /\ player = Hornet_init(max_health, 0)
    /\ hhist = HornetHistInit
    /\ StealthParked
    /\ GameParked
    /\ AfterAnimParked
    /\ anim = Animation_init
    /\ ahist = AnimHistInit

AnimIdle == anim.pc = "idle"

AnimAdd ==
    \E args \in AnimAddArgs :
        /\ AnimIdle
        /\ ahist.adds < MaxAdds
        /\ anim' = add_animation(anim, args)
        /\ \E h \in {[AnimCall(ahist, "add", add_animation_error(args), anim' = anim) EXCEPT
                        !.adds = @ + 1,
                        !.mismatch_seen = @ \/ DurationsMismatch(args)]} :
              ahist' = IF add_animation_error(args) = "none"
                          /\ args.name = anim.current_animation
                       THEN AnimRestart(h, anim')
                       ELSE h
        /\ UNCHANGED <<tmVars, hornetVars, stealthVars, gameVars, afterAnimVars>>

AnimSet ==
    \E name \in AnimNames, rst \in BOOLEAN, reverse \in BOOLEAN :
        /\ AnimIdle
        /\ anim' = set_animation(anim, name, rst, reverse)
        /\ \E h \in {AnimCall(ahist, "set", set_animation_error(anim, name), anim' = anim)} :
              ahist' = IF set_animation_error(anim, name) = "none"
                          /\ (name # anim.current_animation \/ rst)
                       THEN AnimRestart(h, anim')
                       ELSE h
        /\ UNCHANGED <<tmVars, hornetVars, stealthVars, gameVars, afterAnimVars>>

AnimUpdate ==
    \E dt \in AnimDtSet :
        /\ AnimIdle
        /\ ahist.updates < MaxAnimUpdates
        /\ anim' = Animation_update(anim, dt)
        /\ ahist' = IF UpdateReturnsEarly(anim)
                    THEN [AnimCall(ahist, "update", "none", anim' = anim) EXCEPT
                            !.updates = @ + 1]
                    ELSE [AnimCall(ahist, "update", "none", anim' = anim) EXCEPT
                            !.updates = @ + 1,
                            !.adv = Min(@ + dt, AdvCap),
                            !.round_left = IF @ > 0 /\ dt <= @ THEN @ - dt
                                           ELSE -1]
        /\ UNCHANGED <<tmVars, hornetVars, stealthVars, gameVars, afterAnimVars>>

\* the end of the clip at which the loop iteration from a to b turned round
Bounce(a, b) ==
    IF a.current_animation = "None" \/ b.reverse = a.reverse THEN "none"
    ELSE IF ~CurrentClip(a).pingpong THEN "none"
    ELSE IF b.reverse THEN "end" ELSE "start"

AnimLoopStep ==
    /\ anim.pc = "loop"
    /\ anim' = LoopIteration(anim)
    /\ ahist' = [(IF anim'.pc = "idle"
                   THEN [AnimReturned(ahist, anim') EXCEPT
                           !.err = IF HasDuration(anim) THEN "none" ELSE "IndexError"]
                   ELSE ahist)
                 EXCEPT !.bounce = Bounce(anim, anim')]
    /\ UNCHANGED <<tmVars, hornetVars, stealthVars, gameVars, afterAnimVars>>

AnimPause ==
    /\ AnimIdle
    /\ anim' = pause(anim)
    /\ ahist' = AnimCall(ahist, "pause", "none", anim' = anim)
    /\ UNCHANGED <<tmVars, hornetVars, stealthVars, gameVars, afterAnimVars>>

AnimResume ==
    /\ AnimIdle
    /\ anim' = resume(anim)
    /\ ahist' = AnimCall(ahist, "resume", "none", anim' = anim)
    /\ UNCHANGED <<tmVars, hornetVars, stealthVars, gameVars, afterAnimVars>>

AnimReset ==
    /\ AnimIdle
    /\ anim' = reset(anim)
    /\ ahist' = AnimRestart(AnimCall(ahist, "reset", "none", anim' = anim), anim')
    /\ UNCHANGED <<tmVars, hornetVars, stealthVars, gameVars, afterAnimVars>>

NextAnim ==
    \/ AnimAdd \/ AnimSet \/ AnimUpdate \/ AnimLoopStep
    \/ AnimPause \/ AnimResume \/ AnimReset

SpecAnim == InitAnim /\ [][NextAnim]_vars

\* the loop of a running update call is not starved
SpecAnimFair == SpecAnim /\ WF_vars(AnimLoopStep)

(***************************************************************************)
(* SpecPart: the particle system alone.  Spawn requests of the sizes the   *)
(* games make (Stealth Game.py:783-1048) and of sizes around the caps.     *)
(***************************************************************************)
MaxPsCalls == 2
MaxPsUpdates == 2
SparkCounts == {-1, 18, SPARK_MAX - 50, SPARK_MAX + 100}
SmokeCounts == {12, SMOKE_MAX - 50}
EmberCounts == {1, EMBER_MAX - 400}
PsDtSet == {1, PsTicksPerSecond, EmberLife[2]}
ShakeAmount == (9 * PsTicksPerSecond) \div 8
ShakeDuration == PsTicksPerSecond \div 2

PsCall(h, op, count, p) ==
    [h EXCEPT !.op = op, !.count = count,
              !.before = ParticleCount(p.particles),
              !.calls = @ + 1]

Truncated(h, count, MAX) ==
    [h EXCEPT !.truncated = @ \/ (count >= 0 /\ count > Max(0, MAX - h.before))]

InitPart ==
    /\ tm = TransitionManager_init(TMDefaultSpeed)
    /\ TMHistInit
    /\ player = Hornet_init(max_health, 0)
    /\ hhist = HornetHistInit
    /\ StealthParked
    /\ GameParked
    /\ AnimParked
    /\ AfterPartParked
    /\ ps = ParticleSystem_init
    /\ pshist = PsHistInit

PsOther == <<tmVars, hornetVars, stealthVars, gameVars, animVars, afterPartVars>>

PsSpawnSparks ==
    \E count \in SparkCounts :
        \E short \in LifeSplits(to_spawn(count, ParticleCount(ps.particles), SPARK_MAX)) :
            /\ pshist.calls < MaxPsCalls
            /\ ps' = spawn_sparks(ps, count, short)
            /\ pshist' = Truncated(PsCall(pshist, "sparks", count, ps), count, SPARK_MAX)
            /\ UNCHANGED PsOther

PsSpawnSmoke ==
    \E count \in SmokeCounts :
        \E short \in LifeSplits(to_spawn(count, ParticleCount(ps.particles), SMOKE_MAX)) :
            /\ pshist.calls < MaxPsCalls
            /\ ps' = spawn_smoke(ps, count, short)
            /\ pshist' = Truncated(PsCall(pshist, "smoke", count, ps), count, SMOKE_MAX)
            /\ UNCHANGED PsOther

PsSpawnEmbers ==
    \E count \in EmberCounts :
        \E short \in LifeSplits(to_spawn(count, ParticleCount(ps.particles), EMBER_MAX)) :
            /\ pshist.calls < MaxPsCalls
            /\ ps' = spawn_embers(ps, count, short)
            /\ pshist' = PsCall(pshist, "embers", count, ps)
            /\ UNCHANGED PsOther

PsPopup ==
    /\ pshist.calls < MaxPsCalls
    /\ ps' = add_detection_popup(ps)
    /\ pshist' = PsCall(pshist, "popup", 0, ps)
    /\ UNCHANGED PsOther

PsStartShake ==
    /\ pshist.calls < MaxPsCalls
    /\ ps' = start_shake(ps, ShakeAmount, ShakeDuration)
    /\ pshist' = PsCall(pshist, "shake", 0, ps)
    /\ UNCHANGED PsOther

PsEnableEmbers ==
    \E enabled \in BOOLEAN :
        /\ pshist.calls < MaxPsCalls
        /\ enabled # ps.ember_enabled
        /\ ps' = enable_ember_spawning(ps, enabled)
        /\ pshist' = PsCall(pshist, "enable", 0, ps)
        /\ UNCHANGED PsOther

PsLoadEmberImage ==
    /\ pshist.calls < MaxPsCalls
    /\ ~ps.ember_image
    /\ ps' = load_ember_image(ps)
    /\ pshist' = PsCall(pshist, "image", 0, ps)
    /\ UNCHANGED PsOther

PsClear ==
    /\ pshist.calls < MaxPsCalls
    /\ ps' = ParticleSystem_clear(ps)
    /\ pshist' = PsCall(pshist, "clear", 0, ps)
    /\ UNCHANGED PsOther

PsUpdate ==
    \E dt \in PsDtSet :
        \E short \in {0, 1} :
            /\ pshist.updates < MaxPsUpdates
            /\ ps' = ParticleSystem_update(ps, dt, short)
            /\ pshist' = [pshist EXCEPT !.op = "update", !.count = 0,
                                        !.before = ParticleCount(ps.particles),
                                        !.updates = @ + 1]
            /\ UNCHANGED PsOther

NextPart ==
    \/ PsSpawnSparks \/ PsSpawnSmoke \/ PsSpawnEmbers
    \/ PsPopup \/ PsStartShake \/ PsEnableEmbers \/ PsLoadEmberImage
    \/ PsClear \/ PsUpdate

SpecPart == InitPart /\ [][NextPart]_vars

(***************************************************************************)
(* SpecSight: is_in_sight on guards facing several ways, for points ahead  *)
(* of, beside and behind them, inside and outside the viewing distance.    *)
(***************************************************************************)
MaxSightChecks == 3
SightFacings == {0, 14, 15, 90, 180, -135}
SightPositions == {FloatPosition, PairPosition(0, 0), PairPosition(100, 50)}
SightReach == {100, view_distance, view_distance + 1}
SightOffsets ==
    {<<0, 0>>}
    \cup {<<sx * d, sy * d>> : sx \in {-1, 0, 1}, sy \in {-1, 0, 1}, d \in {100}}
    \cup {<<sx * d, 0>> : sx \in {-1, 1}, d \in SightReach}
    \cup {<<0, sy * d>> : sy \in {-1, 1}, d \in SightReach}
    \cup {<<sx * 156, sy * 156>> : sx \in {-1, 1}, sy \in {-1, 1}}

InitSight ==
    /\ tm = TransitionManager_init(TMDefaultSpeed)
    /\ TMHistInit
    /\ player = Hornet_init(max_health, 0)
    /\ hhist = HornetHistInit
    /\ StealthParked
    /\ GameParked
    /\ AnimParked
    /\ PartParked
    /\ PatrolParked
    /\ \E position \in SightPositions, facing_angle \in SightFacings :
          sentry = Guard_view(position, facing_angle)
    /\ sight = SightHistInit

SightOther ==
    <<tmVars, hornetVars, stealthVars, gameVars, animVars, partVars, patrolVars>>

SightCheck ==
    \E off \in SightOffsets :
        \E point \in {<<sentry.position.x + off[1], sentry.position.y + off[2]>>} :
            /\ sight.checks < MaxSightChecks
            /\ sight' = [op |-> "is_in_sight", point |-> point,
                         result |-> is_in_sight(sentry, point),
                         checks |-> sight.checks + 1]
            /\ UNCHANGED sentry
            /\ UNCHANGED SightOther

SightGuardUpdate ==
    /\ sight.checks < MaxSightChecks
    /\ sentry' = Guard_update_position(sentry)
    /\ sight' = [sight EXCEPT !.op = "update", !.result = "none"]
    /\ UNCHANGED SightOther

NextSight == SightCheck \/ SightGuardUpdate

SpecSight == InitSight /\ [][NextSight]_vars

(***************************************************************************)
(* Specification SpecPatrol: the enemy updated frame after frame by        *)
(* update_game, with frames of 1/60 s and of 1/30 s, until it is           *)
(* MaxOutside pixels beyond a bound.                                       *)
(***************************************************************************)

MaxOutside == 20

PatrolDtSet == {TicksPerSecond \div fps, 2 * (TicksPerSecond \div fps)}

InitPatrol ==
    /\ tm = TransitionManager_init(TMDefaultSpeed)
    /\ TMHistInit
    /\ player = Hornet_init(max_health, 0)
    /\ hhist = HornetHistInit
    /\ StealthParked
    /\ GameParked
    /\ AnimParked
    /\ PartParked
    /\ SightParked
    /\ \E w \in PatrolWidths : grub = MossGrub_placed(w)

\* main.py:208
PatrolUpdate ==
    /\ Abs(grub.x) <= patrol_reach + MaxOutside
    /\ \E dt \in PatrolDtSet :
          grub' = MossGrub_update(grub, patrol_reach, -patrol_reach, dt)
    /\ UNCHANGED <<tmVars, hornetVars, stealthVars, gameVars, animVars,
                   partVars, sightVars>>

NextPatrol == PatrolUpdate

SpecPatrol == InitPatrol /\ [][NextPatrol]_vars

(***************************************************************************)
(* Properties of the TransitionManager, checked under SpecTM               *)
(***************************************************************************)

LogCount(kind, id) ==
    Cardinality({i \in DOMAIN cb_log : cb_log[i].kind = kind /\ cb_log[i].id = id})

\* the callback entries appended by the current step
NewEntries == SubSeq(cb_log', Len(cb_log) + 1, Len(cb_log'))
FiredNow(kind) == \E i \in DOMAIN NewEntries : NewEntries[i].kind = kind

C6_Inv ==
    /\ \A id \in 1..(tm_gen + 1) : LogCount("state_change", id) <= 1
    /\ \A i \in DOMAIN cb_log :
          (cb_log[i].kind = "state_change" /\ cb_log[i].id = tm_gen)
              => cb_log[i].arg = tm.target_state
    /\ (tm_gen >= 1 /\ tm.state_change_callback.fn # "None") =>
          /\ tm.phase = "in" =>
                (tm.progress < ProgressHalf /\ LogCount("state_change", tm_gen) = 0)
          /\ tm.phase \in {"out", "complete"} => LogCount("state_change", tm_gen) = 1

C6_Step ==
    FiredNow("state_change") <=>
        /\ tm_op'.op = "update"
        /\ tm.active /\ tm.phase = "in"
        /\ tm.state_change_callback.fn # "None"
        /\ tm.progress + tm.speed * tm_op'.dt >= ProgressHalf

\* C6: the state-change callback of a transition is invoked exactly once,
\* with the target state, on the first update() at which progress is >= 0.5
\* while the phase is "in": never on an earlier update, never again later.
C6_StateChangeExactlyOnce == [](C6_Inv) /\ [][C6_Step]_vars

\* a transition whose state-change callback has fired at the midpoint
C6_Witness ==
    /\ tm.active /\ tm.phase = "out"
    /\ tm.state_change_callback.fn = "record"
    /\ LogCount("state_change", tm_gen) = 1
    /\ tm_op.op = "update"

C7_Inv ==
    /\ \A id \in 1..(tm_gen + 1) : LogCount("complete", id) <= 1
    /\ \A i \in DOMAIN cb_log :
          cb_log[i].kind = "complete" =>
              /\ cb_log[i].active = FALSE
              /\ cb_log[i].phase = "complete"
              /\ \A j \in DOMAIN cb_log : j > i => cb_log[j].id # cb_log[i].id
    /\ (tm_gen >= 1 /\ tm.complete_callback.fn # "None") =>
          /\ tm.phase = "complete" => (~tm.active /\ LogCount("complete", tm_gen) = 1)
          /\ tm.phase \in {"in", "out"} => LogCount("complete", tm_gen) = 0

C7_Step ==
    FiredNow("complete") <=>
        /\ tm_op'.op = "update"
        /\ tm.active /\ tm.phase = "out"
        /\ tm.complete_callback.fn # "None"
        /\ tm.progress + tm.speed * tm_op'.dt >= ProgressOne

\* C7: the complete callback of a transition is invoked exactly once, on the
\* update() in phase "out" at which progress has reached 1.0; when it is
\* invoked active is already false and the phase is "complete"; no callback of
\* that transition fires afterwards.
C7_CompleteExactlyOnce == [](C7_Inv) /\ [][C7_Step]_vars

\* a transition that has completed and fired its complete callback
C7_Witness ==
    /\ ~tm.active /\ tm.phase = "complete"
    /\ tm.complete_callback.fn = "record"
    /\ LogCount("complete", tm_gen) = 1
    /\ tm_op.op = "update"

C8_Step ==
    (tm_op'.op = "start_transition" /\ tm.active) =>
        /\ tm_op'.ret = "False"
        /\ tm' = tm
        /\ cb_log' = cb_log

\* C8: start_transition called while a transition is active returns False
\* and leaves target state, type, speed, progress, phase and both callbacks
\* of the in-flight transition unchanged.
C8_StartWhileActiveRejected == [][C8_Step]_vars

\* a rejected start_transition in the second half of a running transition
C8_Witness ==
    /\ tm_op.op = "start_transition" /\ tm_op.was_active /\ tm_op.ret = "False"
    /\ tm.active /\ tm.phase = "out" /\ tm.progress > 0
    /\ tm.target_state = "A"

\* C9: when the kind-specific validation of start_transition fails, the call
\* returns False and the manager is inactive afterwards.
C9_FailedStartLeavesInactive ==
    (tm_op.op = "start_transition" /\ ~tm_op.was_active /\ tm_op.ret = "False")
        => ~is_active(tm)

(***************************************************************************)
(* Properties of the player, checked under SpecHornet                      *)
(***************************************************************************)

\* the current step is a Hornet.update that brings the update time
\* accumulated by the running channel to heal_channel_duration
ChannelDeadlineStep ==
    /\ player.is_healing
    /\ hhist'.op = "update"
    /\ hhist.elapsed + hhist'.dt >= heal_channel_duration

C3_Step ==
    /\ player'.health > player.health => ChannelDeadlineStep
    /\ ChannelDeadlineStep =>
          /\ ~player'.is_healing
          /\ player'.health = Min(player.health + heal_amount, max_health)

\* C3: once a heal channel has started, health does not increase before the
\* accumulated update time reaches heal_channel_duration; the first update
\* that reaches it ends the channel and sets health to
\* min(health + heal_amount, max_health).
C3_HealAppliedAtDeadline ==
    [](player.is_healing => hhist.elapsed < heal_channel_duration)
        /\ [][C3_Step]_vars

\* a channel that ran its 2 s and healed 1 -> 4
C3_Witness ==
    /\ hhist.op = "update" /\ hhist.elapsed = heal_channel_duration
    /\ ~player.is_healing /\ player.health = 1 + heal_amount

C4_Step ==
    /\ (hhist'.op = "take_damage" /\ hhist'.damage > 0 /\ player.is_healing) =>
          /\ ~player'.is_healing
          /\ player'.heal_channel_timer = 0
          /\ player.silk = 0 /\ player'.silk = 0
          /\ player'.health = Max(0, player.health - hhist'.damage)
    /\ ~player.is_healing => player'.health <= player.health

\* C4: positive damage during a heal channel ends the channel at once; the
\* silk spent at its start is not refunded (silk stays 0), health drops by
\* the damage (not below 0) and the heal of that channel is never applied.
C4_DamageCancelsChannel == [][C4_Step]_vars

\* damage taken in the middle of a channel
C4_Witness ==
    /\ hhist.op = "take_damage" /\ hhist.damage > 0
    /\ hhist.elapsed > 0 /\ hhist.elapsed < heal_channel_duration
    /\ ~player.is_healing /\ player.silk = 0 /\ player.health > 0

HealPressEdge ==
    hhist'.op = "handle_input" /\ hhist'.keys.shift /\ ~player._heal_key_down
HealPreconditions ==
    player.silk > 0 /\ player.health < max_health /\ ~player.is_healing

C5_Step ==
    /\ (~player.is_healing /\ player'.is_healing) =>
          (HealPressEdge /\ HealPreconditions)
    /\ (HealPressEdge /\ HealPreconditions) =>
          /\ player'.is_healing
          /\ player'.silk = 0
          /\ player'.heal_channel_timer = heal_channel_duration
    /\ (hhist'.op = "handle_input" /\ ~(HealPressEdge /\ HealPreconditions)) =>
          /\ player'.silk = player.silk
          /\ player'.health = player.health
          /\ player'.is_healing = player.is_healing
          /\ player'.heal_channel_timer = player.heal_channel_timer

\* C5: a heal channel starts only when the heal key goes from unpressed to
\* pressed while silk > 0, health < max_health and no channel is active;
\* starting sets silk to 0 and the timer to 2 s; a held key or a press with a
\* failed precondition changes neither silk, health nor the channel.
C5_HealStartEdgeTriggered == [][C5_Step]_vars

\* a channel just started by a key press, all silk consumed
C5_Witness ==
    /\ hhist.op = "handle_input" /\ hhist.keys.shift
    /\ player.is_healing /\ player.silk = 0
    /\ player.heal_channel_timer = heal_channel_duration
    /\ hhist.hits > 0

(***************************************************************************)
(* Properties of the stealth game                                          *)
(***************************************************************************)

\* C1: after every StealthGame.update, detection_level lies between 0 and
\* max_detection, whatever dt values and player actions came before.
C1_DetectionWithinBounds ==
    shist.op = "update" =>
        /\ 0 <= sg.detection_level
        /\ sg.detection_level <= max_detection

\* C2: at the end of every executed mission frame (a mission is on, not
\* paused, no transition active at the call) the state is "success" when
\* objective_progress >= objectives_needed, even with the detection at its
\* maximum or the time used up; otherwise "failure" when detection_level >=
\* max_detection or time_remaining <= 0; otherwise still "playing".
C2_Step ==
    (shist'.op = "update" /\ MissionFrameRuns(sg, tm)) =>
        sg'.state =
            IF sg'.objective_progress >= objectives_needed THEN "success"
            ELSE IF sg'.detection_level >= max_detection
                      \/ sg'.time_remaining <= 0
            THEN "failure"
            ELSE "playing"

C2_SuccessBeforeFailure == [][C2_Step]_vars

\* a mission frame has just ended in success although the detection is at
\* its maximum or the time is up
C2_Witness ==
    /\ shist.op = "update" /\ shist.frame
    /\ sg.state = "success"
    /\ (sg.detection_level >= max_detection \/ sg.time_remaining <= 0)

\* the mission state named by C10
MissionState(g) ==
    << g.time_remaining, g.detection_level, g.buttons,
       g.camera_disabled, g.camera_disable_time,
       g.lights_disabled, g.lights_disable_time,
       g.guards, g.event_timer, g.current_event, g.secondary_objectives >>

\* C10: an update called while a transition is active advances no mission
\* state: time_remaining, detection_level, the action cooldowns, the camera
\* and lights timers, the guards, the event timer and the secondary
\* objectives all stay as they were.
C10_Step ==
    (shist'.op = "update" /\ tm.active) => MissionState(sg') = MissionState(sg)

C10_TransitionFreezesMission == [][C10_Step]_vars

\* an update has just been called with a transition active while a mission
\* was on and not paused
C10_Witness ==
    /\ shist.op = "update" /\ shist.tm_active
    /\ sg.state = "playing" /\ ~sg.paused
    /\ ~tm.active

\* the mission state named by C13: the clock, the detection, the progress,
\* the four action cooldowns, the camera and lights timers and the guards
PausedMissionState(g) ==
    << g.time_remaining, g.detection_level, g.objective_progress,
       [k \in ActionKeys |-> g.buttons[k].cooldown],
       g.camera_disable_time, g.lights_disable_time, g.guards >>

\* C13: while the mission is paused (state playing, paused set) and until
\* it is resumed, no update and no input event changes time_remaining,
\* detection_level, objective_progress, the four action cooldowns, the
\* camera and lights disable timers or the guards.
C13_Step ==
    (/\ sg.state = "playing" /\ sg.paused
     /\ sg'.state = "playing" /\ sg'.paused)
        => PausedMissionState(sg') = PausedMissionState(sg)

C13_PauseFreezesMission == [][C13_Step]_vars

\* the hotkey of each player action
ActionHotkey ==
    [k \in ActionKeys |->
        CASE k = "camera" -> "1" [] k = "lights" -> "2"
          [] k = "distract" -> "3" [] k = "hack" -> "4"]

\* C14: each player action is gated by its own cooldown: in every state of
\* a mission in which the cooldown timer of an action is above 0, a click on
\* the action's button and a press of its hotkey leave the mission state
\* as it is, whether in the frame the action fired or in a later one.
C14_CooldownGatesAction ==
    \A k \in ActionKeys :
        (InLoop /\ sg.state = "playing" /\ sg.buttons[k].cooldown > 0) =>
            \A hack_ok \in BOOLEAN :
                /\ MissionState(
                       handle_click(sg, tm, RectCenter(ButtonRect[k]),
                                    [guards |-> sg.guards, hack |-> hack_ok,
                                     video |-> "none"]).g) = MissionState(sg)
                /\ MissionState(_handle_keyboard(sg, ActionHotkey[k], hack_ok))
                       = MissionState(sg)

(***************************************************************************)
(* Properties of a mission                                                 *)
(***************************************************************************)

\* C15: during a mission a click that collects a secondary objective
\* removes it and adds its reward to pending_credits, and pending_credits
\* grows in no other way; currency changes only on the frame the mission
\* turns to success, by exactly the pending amount, pending_credits then
\* being 0; when the mission turns to failure pending_credits becomes 0 and
\* currency is unchanged.
C15_Step ==
    sg.state = "playing" =>
        /\ (sg'.state = "playing"
              /\ sg'.pending_credits # sg.pending_credits) =>
               /\ shist'.op = "input"
               /\ Len(sg'.secondary_objectives)
                    = Len(sg.secondary_objectives) - 1
               /\ sg'.pending_credits
                    = sg.pending_credits
                        + SumRewards(sg.secondary_objectives)
                        - SumRewards(sg'.secondary_objectives)
        /\ (shist'.op = "input"
              /\ Len(sg'.secondary_objectives)
                   < Len(sg.secondary_objectives)
              /\ sg'.state = "playing") =>
               sg'.pending_credits > sg.pending_credits
        /\ sg'.currency # sg.currency => sg'.state = "success"
        /\ sg'.state = "success" =>
               /\ sg'.currency = sg.currency + sg.pending_credits
               /\ sg'.pending_credits = 0
        /\ sg'.state = "failure" =>
               /\ sg'.pending_credits = 0
               /\ sg'.currency = sg.currency

C15_PendingCredits == [][C15_Step]_vars

\* a mission has just turned to success and the credits of a collected
\* secondary objective are in the permanent currency
C15_Witness ==
    /\ shist.op = "update" /\ shist.frame
    /\ sg.state = "success"
    /\ sg.currency > 0
    /\ sg.pending_credits = 0

C16_Step ==
    /\ sg'.state \in {"playing", "success", "failure"} =>
           sg'.objective_progress = 2 * shist'.hacks_ok
    /\ shist'.hacks_ok # shist.hacks_ok =>
           /\ shist'.hacks_ok = shist.hacks_ok + 1
           /\ sg'.detection_level
                = sg.detection_level + (45 * DetectionUnit) \div 10
    /\ (sg.state = "playing" /\ sg'.state = "success") =>
           /\ shist'.op = "update" /\ MissionFrameRuns(sg, tm)
           /\ shist.hacks_ok = 3
           /\ sg.objective_progress = 6
           /\ sg'.currency = sg.currency + sg.pending_credits
    /\ (shist'.op = "update" /\ MissionFrameRuns(sg, tm)) =>
           (sg'.state = "success" <=> sg.objective_progress >= objectives_needed)

C17_Step ==
    shist'.op = "hack" =>
        IF sg'.objective_progress # sg.objective_progress
        THEN /\ sg'.objective_progress = sg.objective_progress + 2
             /\ sg'.detection_level
                  = sg.detection_level + (45 * DetectionUnit) \div 10
             /\ sg'.buttons.hack.cooldown
                  = IF 3 * TicksPerSecond - sg.perks.cooldown_reduction
                         > TicksPerSecond
                    THEN 3 * TicksPerSecond - sg.perks.cooldown_reduction
                    ELSE TicksPerSecond
        ELSE /\ sg'.detection_level
                  = IF sg.detection_level + 15 * DetectionUnit
                         < 100 * DetectionUnit
                    THEN sg.detection_level + 15 * DetectionUnit
                    ELSE 100 * DetectionUnit
             /\ sg'.buttons.hack.cooldown
                  = IF 5 * TicksPerSecond - sg.perks.cooldown_reduction
                         > 2 * TicksPerSecond
                    THEN 5 * TicksPerSecond - sg.perks.cooldown_reduction
                    ELSE 2 * TicksPerSecond

C17_HackEffects == [][C17_Step]_vars

\* a hack has failed at a detection above 85, where the cap engages, with
\* the perk large enough for the floor of the cooldown to engage
C17_Witness ==
    /\ shist.op = "hack"
    /\ sg.objective_progress = 0
    /\ sg.detection_level = max_detection
    /\ sg.perks.cooldown_reduction > 3 * TicksPerSecond
    /\ sg.buttons.hack.cooldown = 2 * TicksPerSecond

\* C18: the hack succeeds exactly when random.random() is at most
\* max(0.4, 0.85 - detection_level / 120): at most 0.85 at detection 0, at
\* most 0.4 at detection 60 and at every detection from 54 on, and at most
\* 0.85 - detection_level / 120 below 54 (detection_level / 120 is d in
\* units of 1 / ChanceUnit).
C18_Step ==
    shist'.op = "hack" =>
        LET succeeded == sg'.objective_progress = sg.objective_progress + 2
            d == sg.detection_level
            roll == shist'.roll
        IN /\ d = 0 => (succeeded <=> 100 * roll <= 85 * ChanceUnit)
           /\ d = 60 * DetectionUnit =>
                  (succeeded <=> 10 * roll <= 4 * ChanceUnit)
           /\ d >= 54 * DetectionUnit =>
                  (succeeded <=> 10 * roll <= 4 * ChanceUnit)
           /\ d < 54 * DetectionUnit =>
                  (succeeded <=> 100 * (roll + d) <= 85 * ChanceUnit)

C18_HackSuccessChance == [][C18_Step]_vars

\* a hack has succeeded at detection 54 with random.random() at 0.4
C18_Witness ==
    /\ shist.op = "hack"
    /\ 10 * shist.roll = 4 * ChanceUnit
    /\ sg.objective_progress = 2
    /\ sg.detection_level = 54 * DetectionUnit + (45 * DetectionUnit) \div 10

(***************************************************************************)
(* Further properties of the transition manager, checked under SpecTM      *)
(***************************************************************************)

\* C12: no operation of the manager makes an active transition inactive
\* before its complete callback has fired: whenever an operation finds the
\* manager active and leaves it inactive, the operation is the update that
\* completed the transition (phase "complete", progress 1.0).
C12_InactiveOnlyByCompletion ==
    (tm_op.was_active /\ ~is_active(tm)) =>
        /\ tm_op.op = "update"
        /\ tm.phase = "complete"
        /\ tm.progress = ProgressOne


(***************************************************************************)
(* Properties of the action game                                           *)
(***************************************************************************)

ContactCount(s) == Cardinality({i \in 1..Len(s) : s[i].contact})

ClipActive == anim.current_animation # "None"

\* C21: between calls, whenever a clip is active the current frame index
\* lies in [0, frame_count) of that clip.
C21_FrameIndexInRange ==
    (AnimIdle /\ ClipActive) =>
        (0 <= anim.current_frame /\ anim.current_frame < CurrentClip(anim).n)

TerminalFrame == IF anim.reverse THEN 0 ELSE CurrentClip(anim).n - 1

TotalDuration(clip) ==
    IF clip.n = 0 THEN 0
    ELSE IF clip.n = 2 THEN clip.durations[1] + clip.durations[2]
    ELSE clip.n * clip.durations[1]

C22_Inv ==
    /\ (AnimIdle /\ anim.finished) =>
          /\ ClipActive
          /\ ~CurrentClip(anim).loop /\ ~CurrentClip(anim).pingpong
          /\ anim.current_frame = TerminalFrame
    /\ (AnimIdle /\ ClipActive /\ CurrentClip(anim).n > 0
        /\ ~CurrentClip(anim).loop /\ ~CurrentClip(anim).pingpong
        /\ ~anim.reverse /\ ahist.adv > TotalDuration(CurrentClip(anim))) =>
          /\ anim.current_frame = CurrentClip(anim).n - 1
          /\ anim.finished /\ ~anim.playing

C22_Step ==
    (AnimIdle /\ anim.finished /\ ahist'.updates # ahist.updates) => anim' = anim

\* C22: finished is true only when the active clip is non-looping and
\* non-pingpong and playback is on its terminal frame; a non-looping clip
\* played forward for more than its total duration is on its last frame
\* with finished true and playing false; an update call on a finished
\* player changes nothing.
C22_FinishedOnlyAtEnd == []C22_Inv /\ [][C22_Step]_vars

\* C23: a looping, non-pingpong clip of n frames with one duration d > 0
\* for every frame, advanced by n*d in all (in one update call or several)
\* from a frame of the clip, is on the frame index it was on before.
C23_LoopRoundTrip ==
    (AnimIdle /\ ahist.round_done) => anim.current_frame = ahist.round_was

\* C24: set_animation with an unregistered name and add_animation with a
\* durations list of the wrong length raise an error and leave the player,
\* its clips included, as it was.
C24_FailedCallsChangeNothing ==
    (ahist.op \in {"add", "set"} /\ ahist.err # "none") => ahist.same

\* a set_animation call that failed on a player in the middle of a clip,
\* after an add_animation call failed on its durations
C24_Witness ==
    /\ ahist.op = "set" /\ ahist.err = "KeyError"
    /\ ahist.mismatch_seen
    /\ ClipActive /\ anim.current_frame > 0

\* C28: every update call returns: a call that has reached the while loop
\* leaves it.
C28_UpdateTerminates == (anim.pc = "loop") ~> (anim.pc = "idle")

(***************************************************************************)
(* The particle cap                                                        *)
(***************************************************************************)
SparksAndSmoke == {"spark", "smoke"}

C25_Inv ==
    (pshist.op \in {"sparks", "smoke"} /\ pshist.count >= 0)
        => /\ ParticleCount(ps.particles) - pshist.before
                = Min(pshist.count, Max(0, 500 - pshist.before))
           /\ (pshist.before <= 500 => ParticleCount(ps.particles) <= 500)

C25_Step ==
    pshist'.op = "update"
        => KindCount(ps'.particles, SparksAndSmoke) <= KindCount(ps.particles, SparksAndSmoke)

\* C25: a call of spawn_sparks or spawn_smoke asking for count >= 0 particles
\* adds exactly min(count, max(0, 500 - current count)) of them, so a system
\* with at most 500 particles still has at most 500 afterwards; what was
\* not added is gone: no update ever adds a spark or a puff of smoke.
C25_SparkAndSmokeCap == []C25_Inv /\ [][C25_Step]_vars

\* 600 sparks are asked for while 450 particles exist: exactly 500 exist then.
C25_Witness ==
    /\ pshist.op = "sparks"
    /\ pshist.count = 600
    /\ pshist.before = 450
    /\ ParticleCount(ps.particles) = 500

(***************************************************************************)
(* The guard's field of view                                               *)
(***************************************************************************)
\* The difference of two angles, normalized into [-180, 180]
NormalizedDiff(a, b) == ((a - b + 180) % 360) - 180

SightDx == sight.point[1] - sentry.position.x
SightDy == sight.point[2] - sentry.position.y

ShouldBeInSight ==
    /\ SightDx * SightDx + SightDy * SightDy <= 220 * 220
    /\ 2 * Abs(NormalizedDiff(Atan2Deg(SightDy, SightDx), sentry.facing_angle)) <= 60

\* C26: is_in_sight(point) answers true exactly when the point is at most
\* view_distance away from the guard and the angle from the guard to the
\* point differs from facing_angle by at most view_angle/2 degrees.
C26_InSightIffInCone ==
    sight.op = "is_in_sight" => (sight.result = "True" <=> ShouldBeInSight)

(***************************************************************************)
(* Save slots                                                              *)
(***************************************************************************)
\* C27: selecting a save slot whose file is absent or corrupt raises no
\* error and starts the game with the default player state: full default
\* health and the default silk.
C27_AbsentOrCorruptSaveFallsBack ==
    (ghist.op = "slot" /\ ghist.file \in {"absent", "corrupt"})
        => /\ ghist.error = "none"
           /\ game.player_set
           /\ player.health = max_health
           /\ player.silk = 0

GuardAlerts(g) == [i \in DOMAIN g.guards |-> g.guards[i].alert]
ActionCooldowns(g) == [k \in ActionKeys |-> g.buttons[k].cooldown]

C30_Step ==
    (shist'.inputs # shist.inputs /\ tm.active)
        => /\ sg'.detection_level = sg.detection_level
           /\ sg'.objective_progress = sg.objective_progress
           /\ sg'.pending_credits = sg.pending_credits
           /\ GuardAlerts(sg') = GuardAlerts(sg)
           /\ ActionCooldowns(sg') = ActionCooldowns(sg)

\* C30: while a transition is active, a click or a key handled by
\* handle_events changes neither the detection level, the objective
\* progress, the pending credits, a guard's alert nor an action's cooldown.
C30_NoGameplayInputDuringTransition == [][C30_Step]_vars

(***************************************************************************)
(* Progress of a transition                                                *)
(***************************************************************************)
C31_Inv == tm.active => (0 <= tm.progress /\ tm.progress <= ProgressOne)

C31_Step ==
    (tm.active /\ tm'.active /\ tm_gen' = tm_gen /\ tm_op'.op = "update")
        => tm'.progress >= tm.progress

\* C31: while a transition is active its progress lies within [0, 1], and an
\* update that leaves the same transition active does not lower it.
C31_ProgressBoundedAndMonotone == []C31_Inv /\ [][C31_Step]_vars

(***************************************************************************)
(* Guard alerts                                                            *)
(***************************************************************************)
StrictlyInZone(gd) ==
    4 * gd.patrol_time < 10 * gd.current_time /\ 10 * gd.current_time < 6 * gd.patrol_time

NoGuardAlert(g) == \A i \in DOMAIN g.guards : ~g.guards[i].alert

C32_Step ==
    \A i \in 1..num_guards :
        /\ (~sg.guards[i].alert /\ sg'.guards[i].alert)
              => /\ shist'.op = "update" /\ shist'.frame
                 /\ StrictlyInZone(sg'.guards[i])
                 /\ sg'.detection_level
                      >= Min(max_detection, sg.detection_level + 5 * DetectionUnit)
        /\ (sg.guards[i].alert /\ ~sg'.guards[i].alert)
              => /\ shist'.op = "input"
                 /\ NoGuardAlert(sg')

\* C32: a guard's alert flag turns true only in an executed mission frame
\* that leaves the guard strictly inside the danger zone, and detection
\* grows by 5 in that frame (up to its maximum); the flag turns false only
\* through an input, a distraction or a reset, after which no guard is alert.
C32_AlertOnlyInDangerZone == [][C32_Step]_vars

\* a mission frame has alerted a guard
C32_Witness ==
    /\ shist.op = "update" /\ shist.frame
    /\ \E i \in 1..num_guards : sg.guards[i].alert /\ StrictlyInZone(sg.guards[i])


(***************************************************************************)
(* Security events                                                         *)
(***************************************************************************)
\* the frame of the last step played with no event timer and no event
QuietFrame(g, h) ==
    MissionFrame([g EXCEPT !.event_timer = 0, !.current_event = NoEvent],
                 h.dt, h.rnd)

\* the event that runs in the frame recorded in h, played from g
RunningEvent(g, h) ==
    IF h.triggered
    THEN [kind |-> h.rnd.event.kind, time_left |-> h.rnd.event.duration,
          dps10 |-> h.rnd.event.dps10]
    ELSE g.current_event

Jolt(h) == IF h.triggered THEN h.rnd.event.instant * DetectionUnit ELSE 0

C33_Step ==
    shist'.op = "update" =>
        /\ sg'.event_timer = IF shist'.triggered THEN 0
                             ELSE sg.event_timer + shist'.dt
        /\ sg'.detection_level =
              Max(0, Min(max_detection,
                         QuietFrame(sg, shist').detection_level + Jolt(shist')
                           + RunningEvent(sg, shist').dps10 * shist'.dt))
        /\ sg'.current_event =
              IF \/ RunningEvent(sg, shist').kind = "None"
                 \/ RunningEvent(sg, shist').time_left <= shist'.dt
              THEN NoEvent
              ELSE [RunningEvent(sg, shist') EXCEPT !.time_left = @ - shist'.dt]
        /\ shist'.shake <=> (shist'.triggered /\ shist'.rnd.event.instant >= 10)

\* C33: a mission frame triggers a security event exactly when the play time
\* accumulated since the last event (or the start of the mission) reaches
\* 5 s, and the event timer restarts at 0; in that frame the event's jolt is
\* added to detection and the event takes the place of the running one; the
\* running event adds its dps times dt in every frame, the frame of the
\* trigger included, until its duration is used up; the screen shake is
\* started exactly when the jolt is at least 10.
C33_SecurityEvents == [][C33_Step]_vars

\* an event with a jolt of 10 or more has replaced a running event
C33_Witness ==
    /\ shist.op = "update" /\ shist.triggered /\ shist.replaced /\ shist.shake
    /\ sg.current_event.kind # "None"

(***************************************************************************)
(* The lights action                                                       *)
(***************************************************************************)
LightsEffects(g1, g2, base) ==
    /\ g2.detection_level = Max(0, g1.detection_level - 10 * DetectionUnit)
    /\ g2.lights_disabled
    /\ g2.lights_disable_time = 6 * TicksPerSecond
    /\ g2.buttons.lights.cooldown =
          Max(TicksPerSecond, base * TicksPerSecond - g1.perks.cooldown_reduction)

C37_Step == shist'.op = "lights" => LightsEffects(sg, sg', 6)

\* C37: cutting the lights, by click or by hotkey, lowers detection by 10
\* but not below 0, disables the lights for 6 s and sets the cooldown of the
\* lights button to max(1, 6 - cooldown_reduction) seconds.
C37_CutLights == [][C37_Step]_vars

(***************************************************************************)
(* The Detection Shield                                                    *)
(***************************************************************************)
\* the detection the frame recorded in h adds when played from g without
\* the Detection Shield
PlainGain(g, h) ==
    MissionFrame([g EXCEPT !.perks.detection_resistance = 0], h.dt, h.rnd)
        .detection_level - g.detection_level

C38_Step ==
    (shist'.op = "update" /\ sg'.detection_level < max_detection)
        => 100 * (sg'.detection_level - sg.detection_level)
             = (100 - sg.perks.detection_resistance) * PlainGain(sg, shist')

\* C38: in a mission frame that stays below the maximum, the detection
\* added with the Detection Shield bought n times is 15 n per cent lower
\* than the detection the same frame adds without it.
C38_DetectionShield == [][C38_Step]_vars

(***************************************************************************)
(* The player's attack                                                     *)
(***************************************************************************)
\* p is the player after handle_input and r the world after update_game,
\* both from w with the frame input inp; the attack registers when p holds
\* the trigger
AttackGated(w, inp, p, r) ==
    p._attack_triggered =>
        /\ inp.keys.j
        /\ w.player._attack_timer = 0
        /\ ~w.player.is_healing
        /\ ~p.is_healing
        /\ p._attack_timer = attack_cooldown
        /\ r.player._attack_timer = Max(0, attack_cooldown - inp.dt)

AttackLands(w, inp, p, r) ==
    IF p._attack_triggered /\ EnemyInPlay(w) /\ inp.attack_hits
    THEN /\ r.game.mossgrub.health = w.game.mossgrub.health - 1
         /\ r.player.silk = Min(max_silk, w.player.silk + 1)
    ELSE /\ r.game.mossgrub.health = w.game.mossgrub.health
         /\ r.player.silk <= w.player.silk

\* the frame inputs with a dt below and a dt above the attack cooldown
AttackInputs ==
    { inp \in GameInputs :
        inp.dt \in {TicksPerSecond \div fps, player_contact_damage_cooldown} }

C35_Step ==
    /\ grub.x >= patrol_reach
          => (grub'.facing_right = -1 /\ grub'.x <= grub.x)
    /\ grub.x <= -patrol_reach
          => (grub'.facing_right = 1 /\ grub'.x >= grub.x)

PingpongSteps(a) ==
    /\ a.pc = "loop"
    /\ CurrentClip(a).pingpong
    /\ HasDuration(a)
    /\ a.elapsed >= CurrentDuration(a)

FrameCount(a) == Len(CurrentClip(a).durations)

C36_Step ==
    PingpongSteps(anim) =>
        /\ (~anim.reverse /\ anim.current_frame = FrameCount(anim) - 1)
              => /\ anim'.reverse
                 /\ anim'.current_frame =
                       IF FrameCount(anim) > 1 THEN FrameCount(anim) - 2 ELSE 0
        /\ (anim.reverse /\ anim.current_frame = 0)
              => /\ ~anim'.reverse
                 /\ anim'.current_frame = IF FrameCount(anim) > 1 THEN 1 ELSE 0
        /\ FrameCount(anim) = 1 => anim'.current_frame = 0

\* C36: a step of a pingpong clip past its last frame turns playback
\* backwards and lands on frame count - 2, a step below frame 0 turns it
\* forwards and lands on frame 1, and a pingpong clip of one frame stays on
\* frame 0.
C36_PingpongTurns == [][C36_Step]_vars

\* a clip of several frames has turned at its end
C36_Witness ==
    /\ anim.current_animation # "None"
    /\ ahist.bounce = "end"
    /\ FrameCount(anim) > 1
    /\ anim.current_frame = FrameCount(anim) - 2

(***************************************************************************)
(* The heal channel's fields                                               *)
(***************************************************************************)
C39_Inv ==
    /\ player.is_healing
          => /\ player.silk = 0
             /\ 0 < player.heal_channel_timer
             /\ player.heal_channel_timer <= heal_channel_duration
    /\ ~player.is_healing => player.heal_channel_timer = 0

C39_Step == player.is_healing => player'.silk <= player.silk

\* C39: while a heal channel is active silk is 0 and the channel timer lies
\* in (0, heal_channel_duration]; with no channel active the timer is 0; no
\* step taken during a channel raises silk.
C39_HealChannelFields == []C39_Inv /\ [][C39_Step]_vars

\* a channel that an update has run down part of the way
C39_Witness ==
    /\ player.is_healing
    /\ hhist.op = "update"
    /\ player.heal_channel_timer < heal_channel_duration

(***************************************************************************)
(* start_transition called from inside the callbacks                       *)
(***************************************************************************)
LastCall(log) == log[Len(log)]

C40_Step ==
    (tm_op'.op = "update" /\ Len(cb_log') > Len(cb_log)) =>
        /\ (LastCall(cb_log').kind = "state_change"
              /\ tm.state_change_callback.fn = "restart")
              => /\ LastCall(cb_log').ret = "False"
                 /\ tm_gen' = tm_gen
                 /\ tm' = [tm EXCEPT !.progress = @ + tm.speed * tm_op'.dt,
                                     !.phase = "out"]
        /\ (LastCall(cb_log').kind = "complete"
              /\ tm.complete_callback.fn = "restart")
              => /\ LastCall(cb_log').ret = "True"
                 /\ tm_gen' = tm_gen + 1
                 /\ tm'.active
                 /\ tm'.phase = "in"
                 /\ tm'.progress = 0
                 /\ tm'.target_state = RestartArgs(tm.complete_callback).target_state

\* C40: a start_transition call made by the state-change callback returns
\* False and the update leaves the transition as it would without the call;
\* one made by the complete callback returns True, and when update returns
\* the new transition is active, in phase 'in', with progress 0.
C40_RestartFromCallbacks == [][C40_Step]_vars

\* the complete callback has started the next transition
C40_Witness ==
    /\ tm_op.op = "update"
    /\ cb_log # <<>>
    /\ LastCall(cb_log).kind = "complete"
    /\ LastCall(cb_log).ret = "True"
    /\ tm.active /\ tm.phase = "in" /\ tm.progress = 0

====
